---------------------------- MODULE Spec2Model ----------------------------
(***************************************************************************)
(* PediatricSleepApp (src/src/PediatricSleepApp.tsx, first implementation, *)
(* lines 1-724): the component's hook state, its event handlers and the    *)
(* schedule derivation of the useMemo callback (lines 158-366); of the     *)
(* second implementation (lines 725-1508) the knowledge table and the      *)
(* schedule derivation (lines 943-1133).                                   *)
(*                                                                         *)
(* Representation.  Inside the component a time-of-day string "HH:MM" is   *)
(* the pair <<h, m>> of the two numbers it prints, the empty string is     *)
(* <<>>.  The text itself, a sequence of characters, is produced and read  *)
(* by FormatTime and ParseTime; the calls of the helper functions recorded *)
(* in the variable calls take and return that text.                        *)
(* A template literal is a record: fmt is the literal text with %s for the *)
(* interpolated values, the other fields are those values.  Non-ASCII      *)
(* letters of the German texts are transliterated.                         *)
(* All numbers the derivation handles are integers: every Math.round is    *)
(* applied to a rational, and is computed exactly (MathRound); for the     *)
(* values of the table the IEEE-754 result is the same.                    *)
(***************************************************************************)
EXTENDS Integers, Sequences, FiniteSets, TLC

VARIABLES
    \* hook state of the component (lines 147-152)
    ageMonths, wakeTime, naps, napStart, napEnd, activeTab,
    \* Date.now(), read by addNap (line 372)
    now,
    \* the calls of the helper functions (lines 102-139) made so far, each with
    \* its arguments and its result
    calls,
    \* position inside the useMemo callback and its locals (lines 158-366)
    pc, std, specificWakeWindow, events, warnings, currentTime, napsPlanned,
    remainingNaps, isToddler, nextWakeWindow, i,
    finalWakeWindow, isStrategicCapping

hookVars == <<ageMonths, wakeTime, naps, napStart, napEnd, activeTab>>
memoVars == <<pc, std, specificWakeWindow, events, warnings, currentTime,
              napsPlanned, remainingNaps, isToddler, nextWakeWindow, i,
              finalWakeWindow, isStrategicCapping>>
vars == <<hookVars, now, calls, memoVars>>

---------------------------------------------------------------------------
(* Bounds of the model *)

\* longest nap log explored
MaxNaps == 2
\* wake times explored: every hour, minutes that are multiples of this step
WakeMinuteStep == 5
\* largest value of Date.now() explored
MaxClock == 2
\* the helper functions are called for months 0..MaxMonth,
MaxMonth == 62
\* for times of day on a grid of HelperMinuteStep minutes,
HelperMinuteStep == 20
\* and for offsets on a grid of DeltaStep minutes
DeltaStep == 7
\* most operations on the nap log that have read it, over one behaviour
MaxPending == 2

(* Program constants *)

SliderMin == 0
SliderMax == 48
MinutesPerDay == 1440
EarlyWakeLimit == 360
CrapNapLimit == 45
StandardNapDuration == 90
\* the cap forgotten: the standard duration
CappedNapDuration_Uncapped == StandardNapDuration
CappedNapDuration == 75
CatNapDuration == 30
\* the window of line 321 taken at the lower end of "5,5-6h"
CappingBedtimeWindow_FiveAndAHalfHours == 11 * 30
CappingBedtimeWindow == 360
EarlyBedtimeLimit == 1080
LateBedtimeLimit == 1260

Blank == <<>>
Undefined == "undefined"

---------------------------------------------------------------------------
(* The knowledge table *)

AgeGroupKeys == {"0-3", "4-6", "7-12", "13-18", "19-36", "36+"}

SLEEP_STANDARDS ==
    [k \in AgeGroupKeys |->
       CASE k = "0-3" ->
              [rangeStart |-> 0, rangeEnd |-> 3, minWake |-> 45, maxWake |-> 90,
               naps |-> 4, label |-> "Neugeborenes (0-3 Monate)", mode |-> "window",
               bedtimeWindow |-> 90,
               description |-> "Kein Tag-Nacht-Rhythmus. Schlafdruck baut sich extrem schnell auf.",
               tooLongNapMinutes |-> 120, latestNapEndTime |-> <<18, 0>>,
               idealBedtime |-> <<20, 0>>]
         [] k = "4-6" ->
              [rangeStart |-> 4, rangeEnd |-> 6, minWake |-> 90, maxWake |-> 150,
               naps |-> 3, label |-> "Saeugling (4-6 Monate)", mode |-> "window",
               bedtimeWindow |-> 150,
               description |-> "Schlaf wird zyklisch. Wachfenster steuern den Tag.",
               tooLongNapMinutes |-> 120, latestNapEndTime |-> <<17, 30>>,
               idealBedtime |-> <<19, 30>>]
         [] k = "7-12" ->
              [rangeStart |-> 7, rangeEnd |-> 12, minWake |-> 150, maxWake |-> 210,
               naps |-> 2, label |-> "Baby (7-12 Monate)", mode |-> "hybrid",
               bedtimeWindow |-> 210,
               description |-> "Uebergang zu 2 Naps. Letztes Wachfenster ist das laengste.",
               tooLongNapMinutes |-> 120, latestNapEndTime |-> <<16, 30>>,
               idealBedtime |-> <<19, 30>>]
         [] k = "13-18" ->
              [rangeStart |-> 13, rangeEnd |-> 18, minWake |-> 240, maxWake |-> 300,
               naps |-> 1, label |-> "Kleinkind (13-18 Monate)", mode |-> "hybrid",
               bedtimeWindow |-> 270,
               description |-> "Umstellung auf einen Mittagsschlaf. Mittagsschlaf sollte mittig liegen.",
               tooLongNapMinutes |-> 150, latestNapEndTime |-> <<15, 0>>,
               idealBedtime |-> <<19, 30>>]
         [] k = "19-36" ->
              [rangeStart |-> 19, rangeEnd |-> 36, minWake |-> 300, maxWake |-> 360,
               naps |-> 1, label |-> "Kleinkind (2-3 Jahre)", mode |-> "clock",
               bedtimeWindow |-> 360,
               description |-> "Strategie: Bei fruehem Erwachen Nap vorziehen & begrenzen, um Nachtschlaf zu verlaengern.",
               tooLongNapMinutes |-> 120, latestNapEndTime |-> <<15, 0>>,
               idealBedtime |-> <<19, 30>>]
         [] k = "36+" ->
              [rangeStart |-> 37, rangeEnd |-> 60, minWake |-> 360, maxWake |-> 720,
               naps |-> 0, label |-> "Vorschulkind (3-5 Jahre)", mode |-> "clock",
               bedtimeWindow |-> 720,
               description |-> "Mittagsschlaf entfaellt meist. Ruhezeit statt Schlaf.",
               tooLongNapMinutes |-> 60, latestNapEndTime |-> <<14, 30>>,
               idealBedtime |-> <<20, 0>>]]

---------------------------------------------------------------------------
(* JavaScript arithmetic on integers and rationals *)

\* a % b of JavaScript for b > 0: the remainder has the sign of a
JsRem(a, b) == IF a >= 0 THEN a % b ELSE -((-a) % b)

\* Math.floor(a / b) for b > 0
MathFloorDiv(a, b) == a \div b

\* Math.round(num / den) for den > 0: the nearest integer, a half rounds up
MathRound(num, den) == (2 * num + den) \div (2 * den)

Max(a, b) == IF a >= b THEN a ELSE b
Min(a, b) == IF a <= b THEN a ELSE b

---------------------------------------------------------------------------
(* Helper functions, lines 102-141 *)

timeToMinutes(time) ==
    IF time = Blank THEN 0 ELSE time[1] * 60 + time[2]

\* lines 111-112 left out: the hour is not brought back into the day
minutesToTime_NoWrap(minutes) == <<MathFloorDiv(minutes, 60), JsRem(minutes, 60)>>

minutesToTime(minutes) ==
    LET h0 == MathFloorDiv(minutes, 60)
        m  == JsRem(minutes, 60)
        h1 == IF h0 >= 24 THEN h0 - 24 ELSE h0
        h2 == IF h1 < 0 THEN h1 + 24 ELSE h1
    IN  <<h2, m>>

addMinutes(time, mins) == minutesToTime(timeToMinutes(time) + mins)

getDuration_NoWrap(start, end) == timeToMinutes(end) - timeToMinutes(start)

getDuration(start, end) ==
    LET diff == timeToMinutes(end) - timeToMinutes(start)
    IN  IF diff < 0 THEN diff + MinutesPerDay ELSE diff

getStandardByMonth_Exclusive(month) ==
    IF month < 3 THEN SLEEP_STANDARDS["0-3"]
    ELSE IF month < 6 THEN SLEEP_STANDARDS["4-6"]
    ELSE IF month < 12 THEN SLEEP_STANDARDS["7-12"]
    ELSE IF month < 18 THEN SLEEP_STANDARDS["13-18"]
    ELSE IF month < 36 THEN SLEEP_STANDARDS["19-36"]
    ELSE SLEEP_STANDARDS["36+"]

getStandardByMonth(month) ==
    IF month <= 3 THEN SLEEP_STANDARDS["0-3"]
    ELSE IF month <= 6 THEN SLEEP_STANDARDS["4-6"]
    ELSE IF month <= 12 THEN SLEEP_STANDARDS["7-12"]
    ELSE IF month <= 18 THEN SLEEP_STANDARDS["13-18"]
    ELSE IF month <= 36 THEN SLEEP_STANDARDS["19-36"]
    ELSE SLEEP_STANDARDS["36+"]

calculateInterpolatedWakeWindow_Reversed(month, s) ==
    IF s.rangeStart = s.rangeEnd THEN s.maxWake
    ELSE MathRound(s.minWake * (s.rangeEnd - s.rangeStart)
                     + (s.maxWake - s.minWake) * (s.rangeEnd - month),
                   s.rangeEnd - s.rangeStart)

calculateInterpolatedWakeWindow(month, s) ==
    IF s.rangeStart = s.rangeEnd THEN s.maxWake
    ELSE MathRound(s.minWake * (s.rangeEnd - s.rangeStart)
                     + (s.maxWake - s.minWake) * (month - s.rangeStart),
                   s.rangeEnd - s.rangeStart)

isLater(a, b) == timeToMinutes(a) > timeToMinutes(b)

---------------------------------------------------------------------------
(* The text of a time of day.  A string is the sequence of its characters. *)
(* timeToMinutes reads the text with split(':').map(Number) (line 104),    *)
(* minutesToTime writes it with toString and padStart (line 113); the      *)
(* operators timeToMinutes and minutesToTime above are the arithmetic      *)
(* between the two.                                                        *)

DigitChars == <<"0", "1", "2", "3", "4", "5", "6", "7", "8", "9">>

\* the value of <input type="time"> for hour h and minute m (lines 447-452,
\* 487, 491): two digits, a colon, two digits
TimeInputValue(h, m) ==
    <<DigitChars[(h \div 10) + 1], DigitChars[(h % 10) + 1], ":",
      DigitChars[(m \div 10) + 1], DigitChars[(m % 10) + 1]>>

\* Number.prototype.toString of an integer
RECURSIVE DigitsOf(_)
DigitsOf(n) ==
    IF n < 10 THEN <<DigitChars[n + 1]>>
    ELSE Append(DigitsOf(n \div 10), DigitChars[(n % 10) + 1])

toString(n) == IF n < 0 THEN <<"-">> \o DigitsOf(-n) ELSE DigitsOf(n)

\* String.prototype.padStart(2, '0')
padStart_NoPadding(str) == str
padStart(str) ==
    IF Len(str) = 0 THEN <<"0", "0">>
    ELSE IF Len(str) = 1 THEN <<"0">> \o str
    ELSE str

\* the template literal of line 113
FormatTime(t) == padStart(toString(t[1])) \o <<":">> \o padStart(toString(t[2]))

\* Number(str) of an optional minus sign and decimal digits; Number('') is 0
DigitValue(c) == CHOOSE d \in 0..9 : DigitChars[d + 1] = c

RECURSIVE NumberOfDigits(_)
NumberOfDigits(str) ==
    IF str = <<>> THEN 0
    ELSE 10 * NumberOfDigits(SubSeq(str, 1, Len(str) - 1)) + DigitValue(str[Len(str)])

Number(str) ==
    IF str # <<>> /\ str[1] = "-" THEN -NumberOfDigits(Tail(str))
    ELSE NumberOfDigits(str)

\* time.split(':').map(Number), of which line 104 takes the first two parts;
\* the empty string stays the empty time (line 103 tests it)
ParseTime(str) ==
    IF str = <<>> THEN Blank
    ELSE LET c == CHOOSE k \in 1..Len(str) :
                     str[k] = ":" /\ \A j \in 1..(k - 1) : str[j] # ":"
         IN  <<Number(SubSeq(str, 1, c - 1)), Number(SubSeq(str, c + 1, Len(str)))>>

---------------------------------------------------------------------------
(* The texts of the derivation *)

EARLY_WAKE_WARNING ==
    "Fruehes Aufwachen (05:00): Strategie \"Nap Capping\" aktiviert, um Nachtschlaf zu verlaengern."
SHORT_NAP_WARNING ==
    "Vorheriger Nap war kurz: Naechstes Wachfenster deutlich reduziert."
CAPPING_WARNING ==
    "WICHTIG: Mittagsschlaf nach 75 Minuten beenden (Wecken), damit die Bettzeit heute Abend passt."
CAPPING_TITLE == "Strategischer Mittagsschlaf (Capping)"
LATE_END_NOTE == " ACHTUNG: Nap endet sehr spaet (%s). Gefahr fuer Bettzeit!"
CRAP_NAP_REASON ==
    "Kurzer Nap baut Schlafdruck nur unvollstaendig ab. Naechstes Wachfenster verkuerzen."
TOO_LONG_REASON == "Zu langer Nap \"stiehlt\" Schlafdruck fuer die Nacht."
GOOD_NAP_REASON == "Gute Erholung."
\* line 255, with the nap start "11:00" written into the text
CAPPING_REASON ==
    "Kompromisszeit 11:00 Uhr. WICHTIG: Nach 75 Min (%s) wecken! Das sichert genug Schlafdruck fuer eine Bettzeit um 18:15 Uhr."
\* line 337, with the range "18:15 - 18:45" written into the text
TARGET_BEDTIME_RANGE == "18:15 - 18:45 Uhr"

\* title.includes('Capping'), line 317: of the titles the derivation produces
\* ('Tagesbeginn', 'Nickerchen %s (Ist)', 'Vorschlag: Nap %s' with a number)
\* only the capping title holds the word
TitleIncludesCapping(title) == title.fmt = CAPPING_TITLE

\* Math.round(w / 60 * 10) / 10, in tenths of an hour (lines 276, 332)
HoursWakeTenths(w) == MathRound(w * 10, 60)

---------------------------------------------------------------------------
(* The useMemo callback, lines 158-366, one action per block or iteration *)

\* the limit made inclusive
IsEarlyWake_Inclusive(wakeMins) == wakeMins <= EarlyWakeLimit
\* line 179
IsEarlyWake(wakeMins) == wakeMins < EarlyWakeLimit

\* lines 165-172
WakeEvent(wake) ==
    [type |-> "wake", startTime |-> wake,
     title |-> [fmt |-> "Tagesbeginn"],
     description |-> [fmt |-> "Start des Schlafdruck-Aufbaus."],
     reasoning |-> <<[fmt |-> "Licht und Fruehstueck helfen, die innere Uhr zu stellen."]>>,
     isPrediction |-> FALSE]

\* lines 159-181
BeginDerive ==
    /\ pc = "start"
    /\ std' = getStandardByMonth(ageMonths)
    /\ specificWakeWindow' = calculateInterpolatedWakeWindow(ageMonths, std')
    /\ events' = <<WakeEvent(wakeTime)>>
    /\ currentTime' = wakeTime
    /\ napsPlanned' = 0
    /\ warnings' = IF IsEarlyWake(timeToMinutes(wakeTime))
                   THEN <<EARLY_WAKE_WARNING>> ELSE <<>>
    /\ pc' = "observed"
    /\ UNCHANGED <<calls, hookVars, now, remainingNaps, isToddler, nextWakeWindow, i,
                   finalWakeWindow, isStrategicCapping>>

\* line 185
isCrapNap(nap) == nap.duration < CrapNapLimit
\* the threshold made inclusive
isTooLong_Inclusive(nap, s) == nap.duration >= s.tooLongNapMinutes
\* line 186
isTooLong(nap, s) == nap.duration > s.tooLongNapMinutes

\* lines 187-196
ObservedAlertLevel(nap, s) ==
    IF isCrapNap(nap) THEN "warning"
    ELSE IF isTooLong(nap, s) THEN "warning"
    ELSE "normal"

ObservedReasoning(nap, s) ==
    IF isCrapNap(nap) THEN CRAP_NAP_REASON
    ELSE IF isTooLong(nap, s) THEN TOO_LONG_REASON
    ELSE GOOD_NAP_REASON

\* lines 198-207; index counts from 0
ObservedEvent(nap, index, s) ==
    [type |-> "nap", startTime |-> nap.startTime, endTime |-> nap.endTime,
     title |-> [fmt |-> "Nickerchen %s (Ist)", n |-> index + 1],
     description |-> [fmt |-> "%s min.", mins |-> nap.duration],
     reasoning |-> <<[fmt |-> ObservedReasoning(nap, s)]>>,
     isPrediction |-> FALSE,
     alertLevel |-> ObservedAlertLevel(nap, s)]

\* lines 184-211, one iteration of naps.forEach; index = napsPlanned
ObservedNap ==
    /\ pc = "observed"
    /\ napsPlanned < Len(naps)
    /\ LET nap == naps[napsPlanned + 1]
       IN  /\ events' = Append(events, ObservedEvent(nap, napsPlanned, std))
           /\ currentTime' = nap.endTime
    /\ napsPlanned' = napsPlanned + 1
    /\ UNCHANGED <<calls, hookVars, now, pc, std, specificWakeWindow, warnings,
                   remainingNaps, isToddler, nextWakeWindow, i,
                   finalWakeWindow, isStrategicCapping>>

\* the observed naps not subtracted
RemainingNaps_NotSubtracted(s, planned) == Max(0, s.naps)
\* line 214
RemainingNaps(s, planned) == Max(0, s.naps - planned)
\* line 215
IsToddler(age) == age >= 19 /\ age <= 36
\* lines 221-223
LastNapWasShort(log) == Len(log) > 0 /\ log[Len(log)].duration < CrapNapLimit
\* the factor 0.85 in place of 0.8
ReducedWakeWindow_Factor85(w) == MathRound(w * 85, 100)
\* line 224: Math.round(nextWakeWindow * 0.8)
ReducedWakeWindow(w) == MathRound(w * 8, 10)

\* lines 214-229, up to the loop's initialisation
PlanPredictions ==
    /\ pc = "observed"
    /\ napsPlanned = Len(naps)
    /\ remainingNaps' = RemainingNaps(std, napsPlanned)
    /\ isToddler' = IsToddler(ageMonths)
    /\ nextWakeWindow' = IF LastNapWasShort(naps)
                         THEN ReducedWakeWindow(specificWakeWindow)
                         ELSE specificWakeWindow
    /\ warnings' = IF LastNapWasShort(naps)
                   THEN Append(warnings, SHORT_NAP_WARNING) ELSE warnings
    /\ i' = 0
    /\ pc' = "predict"
    /\ UNCHANGED <<calls, hookVars, now, std, specificWakeWindow, events, currentTime,
                   napsPlanned, finalWakeWindow, isStrategicCapping>>

\* the clock target of line 242 put at noon
IdealClockNap_Noon == timeToMinutes(<<12, 0>>)
\* line 242
IdealClockNap == timeToMinutes(<<12, 30>>)
\* line 240
UsesClockBranch(toddler, s, planned) == toddler /\ s.naps = 1 /\ planned = 0
\* the comparison of line 246 made inclusive
CappingChosen_Inclusive(physiologicalMaxNap, idealClockNap) ==
    physiologicalMaxNap <= idealClockNap - 30
\* line 246
CappingChosen(physiologicalMaxNap, idealClockNap) ==
    physiologicalMaxNap < idealClockNap - 30
\* the ceiling of line 264 left out
ClockNapStart_NoCeiling(cur, s, idealClockNap) ==
    Max(timeToMinutes(cur) + s.minWake, idealClockNap)
\* lines 262-264
ClockNapStart(cur, s, idealClockNap) ==
    LET physiologicalMaxNap == timeToMinutes(cur) + s.maxWake
        physiologicalMinNap == timeToMinutes(cur) + s.minWake
        target == Max(physiologicalMinNap, idealClockNap)
    IN  Min(target, physiologicalMaxNap)
\* the test for more than one nap left out of line 274
StandardDuration_AnyLastNap(s, napNumber) ==
    IF napNumber = s.naps THEN CatNapDuration ELSE StandardNapDuration
\* line 274
StandardDuration(s, napNumber) ==
    IF s.naps > 1 /\ napNumber = s.naps THEN CatNapDuration ELSE StandardNapDuration

\* lines 247-259: the capped early nap
CappedNap(cur, s) ==
    LET physiologicalMaxNap == timeToMinutes(cur) + s.maxWake
        start == minutesToTime(physiologicalMaxNap)
        wakeUpTime == addMinutes(start, 75)
    IN  [start |-> start, duration |-> CappedNapDuration,
         title |-> [fmt |-> CAPPING_TITLE],
         description |-> [fmt |-> "Start: %s | Wecken um: %s",
                          t1 |-> start, t2 |-> wakeUpTime],
         reasoning |-> <<[fmt |-> CAPPING_REASON,
                          t1 |-> wakeUpTime]>>,
         alertLevel |-> "warning",
         warnings |-> <<CAPPING_WARNING>>]

\* lines 261-268: the clock-anchored nap
ClockNap(cur, s, napNumber) ==
    LET start == minutesToTime(ClockNapStart(cur, s, IdealClockNap))
    IN  [start |-> start, duration |-> StandardNapDuration,
         title |-> [fmt |-> "Vorschlag: Nap %s", n |-> napNumber],
         description |-> [fmt |-> "Zielzeit ca. %s. Dauer: 90 Min.", t1 |-> start],
         reasoning |-> <<[fmt |-> "Standard-Mittagsschlafzeit passend zum Wachfenster."]>>,
         alertLevel |-> "normal",
         warnings |-> <<>>]

\* lines 272-278: the wake-window nap
WindowNap(cur, window, s, napNumber) ==
    LET duration == StandardDuration(s, napNumber)
    IN  [start |-> addMinutes(cur, window), duration |-> duration,
         title |-> [fmt |-> "Vorschlag: Nap %s", n |-> napNumber],
         description |-> [fmt |-> "Dauer ca. %s Min.", mins |-> duration],
         reasoning |-> <<[fmt |-> "Basiert auf Wachfenster von ca. %s Std.",
                          tenths |-> HoursWakeTenths(window)]>>,
         alertLevel |-> "normal",
         warnings |-> <<>>]

\* lines 233-279: the candidate nap before the late-end check
CandidateNap(cur, window, napNumber, s, toddler, planned) ==
    IF UsesClockBranch(toddler, s, planned)
    THEN IF CappingChosen(timeToMinutes(cur) + s.maxWake, IdealClockNap)
         THEN CappedNap(cur, s)
         ELSE ClockNap(cur, s, napNumber)
    ELSE WindowNap(cur, window, s, napNumber)

\* the end compared with the wrong field of the band
EndsTooLate_IdealBedtime(predictedNapEnd, s) ==
    s.idealBedtime # Blank /\ isLater(predictedNapEnd, s.idealBedtime)
\* line 284
EndsTooLate(predictedNapEnd, s) ==
    s.latestNapEndTime # Blank /\ isLater(predictedNapEnd, s.latestNapEndTime)

\* lines 281-298: the late-end check and the event pushed
PredictedEvent(c, s) ==
    LET predictedNapEnd == addMinutes(c.start, c.duration)
        late == EndsTooLate(predictedNapEnd, s)
    IN  [type |-> "nap", startTime |-> c.start, endTime |-> predictedNapEnd,
         title |-> c.title, description |-> c.description,
         reasoning |-> IF late
                       THEN Append(c.reasoning,
                                   [fmt |-> LATE_END_NOTE, t1 |-> predictedNapEnd])
                       ELSE c.reasoning,
         isPrediction |-> TRUE,
         alertLevel |-> IF late THEN "warning" ELSE c.alertLevel]

\* line 301 left out: the window of the slot before stays in effect
WidenedWakeWindow_Kept(s) == nextWakeWindow
\* the lower bound of the band in place of the upper
WidenedWakeWindow_MinWake(s) == s.minWake
\* line 301
WidenedWakeWindow(s) == s.maxWake

\* lines 229-302, one iteration of the for loop
PredictNap ==
    /\ pc = "predict"
    /\ i < remainingNaps
    /\ LET napNumber == napsPlanned + i + 1
           c == CandidateNap(currentTime, nextWakeWindow, napNumber, std,
                             isToddler, napsPlanned)
           e == PredictedEvent(c, std)
       IN  /\ warnings' = warnings \o c.warnings
           /\ events' = Append(events, e)
           /\ currentTime' = e.endTime
    /\ nextWakeWindow' = WidenedWakeWindow(std)
    /\ i' = i + 1
    /\ UNCHANGED <<calls, hookVars, now, pc, std, specificWakeWindow, napsPlanned,
                   remainingNaps, isToddler, finalWakeWindow, isStrategicCapping>>

\* lines 305-310
BaseBedtimeWindow(age, s) ==
    IF s.mode # "clock"
    THEN MathRound((s.bedtimeWindow - 30) * (s.rangeEnd - s.rangeStart)
                     + 60 * (age - s.rangeStart),
                   s.rangeEnd - s.rangeStart)
    ELSE s.bedtimeWindow

\* line 317
IsCappingEvent(toddler, lastEvent) ==
    toddler /\ lastEvent.type = "nap" /\ TitleIncludesCapping(lastEvent.title)
\* line 322
IsProblemNap(lastEvent) ==
    lastEvent.type = "nap" /\ lastEvent.alertLevel = "warning"
\* the factor 0.8 in place of 0.9
ShortenedBedtimeWindow_Factor80(w) == MathRound(w * 8, 10)
\* line 324: Math.round(finalWakeWindow * 0.9)
ShortenedBedtimeWindow(w) == MathRound(w * 9, 10)

\* lines 313-325
FinalWakeWindow(toddler, lastEvent, base) ==
    IF IsCappingEvent(toddler, lastEvent) THEN CappingBedtimeWindow
    ELSE IF IsProblemNap(lastEvent) THEN ShortenedBedtimeWindow(base)
    ELSE base

\* the late limit made inclusive
BedtimeAlert_Inclusive(capping, bedtimeMins) ==
    IF capping THEN "warning"
    ELSE IF bedtimeMins < EarlyBedtimeLimit THEN "warning"
    ELSE IF bedtimeMins >= LateBedtimeLimit THEN "critical"
    ELSE "normal"
\* lines 333-353
BedtimeAlert(capping, bedtimeMins) ==
    IF capping THEN "warning"
    ELSE IF bedtimeMins < EarlyBedtimeLimit THEN "warning"
    ELSE IF bedtimeMins > LateBedtimeLimit THEN "critical"
    ELSE "normal"

BedtimeTitle(capping, bedtimeMins) ==
    IF capping THEN "Ziel-Bettzeit"
    ELSE IF bedtimeMins < EarlyBedtimeLimit THEN "Fruehe Bettzeit"
    ELSE IF bedtimeMins > LateBedtimeLimit THEN "Spaete Bettzeit"
    ELSE "Bettzeit"

BedtimeDescription(capping, bedtimeMins) ==
    IF capping THEN TARGET_BEDTIME_RANGE
    ELSE IF bedtimeMins < EarlyBedtimeLimit THEN "Ausgleich fuer fruehen Start"
    ELSE "Nachtruhe"

BedtimeReasoning(capping, bedtimeMins, window) ==
    IF capping
    THEN <<[fmt |-> "Nach dem Wecken um 12:15 Uhr benoetigt das Kind ca. 5,5-6h Wachzeit. Ziel: Uebermuedung vermeiden, aber Schlafdruck nutzen."]>>
    ELSE IF bedtimeMins < EarlyBedtimeLimit
    THEN <<[fmt |-> "Wegen des fruehen Morgens ist eine fruehe Bettzeit noetig."]>>
    ELSE IF bedtimeMins > LateBedtimeLimit
    THEN <<[fmt |-> "Wachfenster wurde sehr lang. Risiko, dass das Kind ueberdreht."]>>
    ELSE <<[fmt |-> "Wachzeit vor Bett: %s Std.", tenths |-> HoursWakeTenths(window)]>>

\* lines 327-363
BedtimeEvent(cur, window, capping) ==
    LET bedtime0 == addMinutes(cur, window)
        bedtimeMins == timeToMinutes(bedtime0)
        bedtime == IF capping THEN addMinutes(cur, 360) ELSE bedtime0
    IN  [type |-> "bedtime", startTime |-> bedtime,
         title |-> [fmt |-> BedtimeTitle(capping, bedtimeMins)],
         description |-> [fmt |-> BedtimeDescription(capping, bedtimeMins)],
         reasoning |-> BedtimeReasoning(capping, bedtimeMins, window),
         isPrediction |-> TRUE,
         alertLevel |-> BedtimeAlert(capping, bedtimeMins)]

\* lines 304-365
Bedtime ==
    /\ pc = "predict"
    /\ i >= remainingNaps
    /\ LET lastEvent == events[Len(events)]
       IN  /\ isStrategicCapping' = IsCappingEvent(isToddler, lastEvent)
           /\ finalWakeWindow' =
                  FinalWakeWindow(isToddler, lastEvent,
                                  BaseBedtimeWindow(ageMonths, std))
    /\ events' = Append(events,
                        BedtimeEvent(currentTime, finalWakeWindow', isStrategicCapping'))
    /\ pc' = "done"
    /\ UNCHANGED <<calls, hookVars, now, std, specificWakeWindow, warnings, currentTime,
                   napsPlanned, remainingNaps, isToddler, nextWakeWindow, i>>

\* line 365: the value the callback returns
scheduleData == [events |-> events, warnings |-> warnings, standard |-> std]

Derive == BeginDerive \/ ObservedNap \/ PlanPredictions \/ PredictNap \/ Bedtime

---------------------------------------------------------------------------
(* The component: initial hook state and event handlers *)

\* the locals of a callback invocation that has not started
FreshMemo ==
    /\ pc' = "start"
    /\ std' = Undefined
    /\ specificWakeWindow' = Undefined
    /\ events' = <<>>
    /\ warnings' = <<>>
    /\ currentTime' = Undefined
    /\ napsPlanned' = Undefined
    /\ remainingNaps' = Undefined
    /\ isToddler' = Undefined
    /\ nextWakeWindow' = Undefined
    /\ i' = Undefined
    /\ finalWakeWindow' = Undefined
    /\ isStrategicCapping' = Undefined

\* values the handlers of the component are offered
AgeInputs == {2, 24}
WakeInputs == {<<5, 0>>, <<7, 0>>}
NapTimeInputs == {<<9, 0>>, <<9, 30>>}

\* lines 147-152, before the first run of the useMemo callback
Init ==
    /\ ageMonths = 24
    /\ wakeTime = <<5, 0>>
    /\ naps = <<>>
    /\ napStart = Blank
    /\ napEnd = Blank
    /\ activeTab = "schedule"
    /\ now = 0
    /\ calls = <<>>
    /\ pc = "start"
    /\ std = Undefined
    /\ specificWakeWindow = Undefined
    /\ events = <<>>
    /\ warnings = <<>>
    /\ currentTime = Undefined
    /\ napsPlanned = Undefined
    /\ remainingNaps = Undefined
    /\ isToddler = Undefined
    /\ nextWakeWindow = Undefined
    /\ i = Undefined
    /\ finalWakeWindow = Undefined
    /\ isStrategicCapping = Undefined

\* Array.prototype.sort with the comparator of line 373 (a stable sort):
\* x goes behind every element whose start is not later than its own
RECURSIVE InsertByStart(_, _)
InsertByStart(x, sorted) ==
    IF sorted = <<>> THEN <<x>>
    ELSE IF timeToMinutes(sorted[Len(sorted)].startTime) - timeToMinutes(x.startTime) > 0
         THEN Append(InsertByStart(x, SubSeq(sorted, 1, Len(sorted) - 1)),
                     sorted[Len(sorted)])
         ELSE Append(sorted, x)

\* the sort of line 373 left out
SortByStart_Unsorted(list) == list

RECURSIVE SortByStart(_)
SortByStart(list) ==
    IF list = <<>> THEN <<>>
    ELSE InsertByStart(list[Len(list)], SortByStart(SubSeq(list, 1, Len(list) - 1)))

\* line 372
NapEntry(id, start, end) ==
    [id |-> id, startTime |-> start, endTime |-> end,
     duration |-> getDuration(start, end)]

\* addNap with the test of line 369 reduced to the start field
addNap_StartOnly ==
    /\ pc = "done"
    /\ activeTab = "schedule"
    /\ IF napStart = Blank
       THEN UNCHANGED vars
       ELSE /\ Len(naps) < MaxNaps
            /\ naps' = SortByStart(Append(naps, NapEntry(now, napStart, napEnd)))
            /\ napStart' = Blank
            /\ napEnd' = Blank
            /\ FreshMemo
            /\ UNCHANGED <<calls, ageMonths, wakeTime, activeTab, now>>

\* lines 368-377
addNap ==
    /\ pc = "done"
    /\ activeTab = "schedule"
    /\ IF napStart = Blank \/ napEnd = Blank
       THEN UNCHANGED vars
       ELSE /\ Len(naps) < MaxNaps
            /\ naps' = SortByStart(Append(naps, NapEntry(now, napStart, napEnd)))
            /\ napStart' = Blank
            /\ napEnd' = Blank
            /\ FreshMemo
            /\ UNCHANGED <<calls, ageMonths, wakeTime, activeTab, now>>

\* lines 379-381, called with the id of a listed entry (line 476)
removeNap ==
    /\ pc = "done"
    /\ activeTab = "schedule"
    /\ \E k \in 1..Len(naps) :
          naps' = SelectSeq(naps, LAMBDA n : n.id # naps[k].id)
    /\ FreshMemo
    /\ UNCHANGED <<calls, ageMonths, wakeTime, napStart, napEnd, activeTab, now>>

\* setNaps([]) of line 436 left out
SetAgeMonths_KeepLog ==
    /\ pc = "done"
    /\ activeTab = "schedule"
    /\ \E v \in AgeInputs : v # ageMonths /\ ageMonths' = v
    /\ FreshMemo
    /\ UNCHANGED <<calls, wakeTime, naps, napStart, napEnd, activeTab, now>>

\* line 436: the slider's change event
SetAgeMonths ==
    /\ pc = "done"
    /\ activeTab = "schedule"
    /\ \E v \in AgeInputs : v # ageMonths /\ ageMonths' = v
    /\ naps' = <<>>
    /\ FreshMemo
    /\ UNCHANGED <<calls, wakeTime, napStart, napEnd, activeTab, now>>

\* line 450
SetWakeTime ==
    /\ pc = "done"
    /\ activeTab = "schedule"
    /\ \E v \in WakeInputs \cup {Blank} : v # wakeTime /\ wakeTime' = v
    /\ FreshMemo
    /\ UNCHANGED <<calls, ageMonths, naps, napStart, napEnd, activeTab, now>>

\* line 487
SetNapStart ==
    /\ pc = "done"
    /\ activeTab = "schedule"
    /\ \E v \in NapTimeInputs \cup {Blank} : v # napStart /\ napStart' = v
    /\ UNCHANGED <<calls, ageMonths, wakeTime, naps, napEnd, activeTab, now, memoVars>>

\* line 491
SetNapEnd ==
    /\ pc = "done"
    /\ activeTab = "schedule"
    /\ \E v \in NapTimeInputs \cup {Blank} : v # napEnd /\ napEnd' = v
    /\ UNCHANGED <<calls, ageMonths, wakeTime, naps, napStart, activeTab, now, memoVars>>

\* lines 405, 411
SetActiveTab ==
    /\ pc = "done"
    /\ \E t \in {"schedule", "tips"} : t # activeTab /\ activeTab' = t
    /\ UNCHANGED <<calls, ageMonths, wakeTime, naps, napStart, napEnd, now, memoVars>>

\* the clock read by Date.now() advances
Tick ==
    /\ now < MaxClock
    /\ now' = now + 1
    /\ UNCHANGED <<calls, hookVars, memoVars>>

Next ==
    \/ Derive
    \/ addNap \/ removeNap
    \/ SetAgeMonths \/ SetWakeTime \/ SetNapStart \/ SetNapEnd \/ SetActiveTab
    \/ Tick

Spec == Init /\ [][Next]_vars

---------------------------------------------------------------------------
(* The derivation on its own: every input of a grid, then the callback *)

WakeTimes ==
    {<<h, m>> : h \in 0..23, m \in {x \in 0..59 : x % WakeMinuteStep = 0}}
    \cup {Blank}

\* wake times combined with a non-empty nap log
LogWakeTimes == {<<5, 0>>, <<7, 0>>}

\* the naps a log is built from: a start and a duration
NapStarts == {<<9, 0>>, <<13, 0>>}
NapDurations == {30, 45, 120, 121, 150, 151}
NapCandidates ==
    {NapEntry(0, s, addMinutes(s, d)) : s \in NapStarts, d \in NapDurations}

\* a nap log the handlers can build: sorted by start, ids in order of entry
IsSortedByStart(list) ==
    \A k \in 1..(Len(list) - 1) :
        timeToMinutes(list[k].startTime) <= timeToMinutes(list[k + 1].startTime)

NapLogs ==
    {[k \in 1..Len(l) |-> [l[k] EXCEPT !.id = k]] :
        l \in {c \in UNION {[1..n -> NapCandidates] : n \in 0..MaxNaps} :
                 IsSortedByStart(c)}}

InitDerive ==
    /\ ageMonths \in SliderMin..SliderMax
    /\ \/ naps = <<>> /\ wakeTime \in WakeTimes
       \/ naps \in NapLogs /\ wakeTime \in LogWakeTimes
    /\ napStart = Blank
    /\ napEnd = Blank
    /\ activeTab = "schedule"
    /\ now = MaxClock
    /\ calls = <<>>
    /\ pc = "start"
    /\ std = Undefined
    /\ specificWakeWindow = Undefined
    /\ events = <<>>
    /\ warnings = <<>>
    /\ currentTime = Undefined
    /\ napsPlanned = Undefined
    /\ remainingNaps = Undefined
    /\ isToddler = Undefined
    /\ nextWakeWindow = Undefined
    /\ i = Undefined
    /\ finalWakeWindow = Undefined
    /\ isStrategicCapping = Undefined

DeriveSpec == InitDerive /\ [][Derive]_vars

---------------------------------------------------------------------------
(* The helper functions on their own (lines 102-139): a first call with    *)
(* arguments of a grid, its evaluation, and a second call that takes the   *)
(* first one's result.  A call is a record of the function's name, the     *)
(* arguments and, once it has returned, the result.                        *)

Call(fn, args) == [fn |-> fn, args |-> args, returned |-> FALSE, ret |-> Undefined]

LastCall == calls[Len(calls)]
Pending(fn) == calls # <<>> /\ LastCall.fn = fn /\ ~LastCall.returned
Completed(fn) == calls # <<>> /\ LastCall.fn = fn /\ LastCall.returned
Return(value) ==
    calls' = [calls EXCEPT ![Len(calls)] = [@ EXCEPT !.returned = TRUE, !.ret = value]]

\* the time texts and the minute counts of the first calls
ClockTexts == {TimeInputValue(h, m) : h \in 0..23, m \in 0..59}
HelperTexts ==
    {TimeInputValue(h, m) :
        h \in 0..23, m \in {x \in 0..59 : x % HelperMinuteStep = 0}}
Deltas ==
    {d \in (1 - MinutesPerDay)..(MinutesPerDay - 1) : d % DeltaStep = 0}
    \cup {1 - MinutesPerDay, -1, 1, MinutesPerDay - 1}
MinuteTotals == (1 - MinutesPerDay)..(2 * MinutesPerDay - 2)
Months == 0..MaxMonth

InitHelpers ==
    /\ ageMonths = 24
    /\ wakeTime = <<5, 0>>
    /\ naps = <<>>
    /\ napStart = Blank
    /\ napEnd = Blank
    /\ activeTab = "schedule"
    /\ now = 0
    /\ \/ calls \in {<<Call("timeToMinutes", <<t>>)>> : t \in ClockTexts \cup {<<>>}}
       \/ calls \in {<<Call("minutesToTime", <<n>>)>> : n \in MinuteTotals}
       \/ calls \in {<<Call("addMinutes", <<t, d>>)>> : t \in HelperTexts, d \in Deltas}
       \/ calls \in {<<Call("getDuration", <<t, u>>)>> : t \in HelperTexts, u \in HelperTexts}
       \/ calls \in {<<Call("getStandardByMonth", <<a>>)>> : a \in Months}
       \/ calls \in {<<Call("calculateInterpolatedWakeWindow", <<a, SLEEP_STANDARDS[k]>>)>> :
                        a \in Months, k \in AgeGroupKeys}
    /\ pc = "start"
    /\ std = Undefined
    /\ specificWakeWindow = Undefined
    /\ events = <<>>
    /\ warnings = <<>>
    /\ currentTime = Undefined
    /\ napsPlanned = Undefined
    /\ remainingNaps = Undefined
    /\ isToddler = Undefined
    /\ nextWakeWindow = Undefined
    /\ i = Undefined
    /\ finalWakeWindow = Undefined
    /\ isStrategicCapping = Undefined

\* lines 102-106
EvalTimeToMinutes ==
    /\ Pending("timeToMinutes")
    /\ Return(timeToMinutes(ParseTime(LastCall.args[1])))
    /\ UNCHANGED <<hookVars, now, memoVars>>

\* lines 108-114
EvalMinutesToTime ==
    /\ Pending("minutesToTime")
    /\ Return(FormatTime(minutesToTime(LastCall.args[1])))
    /\ UNCHANGED <<hookVars, now, memoVars>>

\* lines 116-118
EvalAddMinutes ==
    /\ Pending("addMinutes")
    /\ Return(FormatTime(addMinutes(ParseTime(LastCall.args[1]), LastCall.args[2])))
    /\ UNCHANGED <<hookVars, now, memoVars>>

\* lines 120-124
EvalGetDuration ==
    /\ Pending("getDuration")
    /\ Return(getDuration(ParseTime(LastCall.args[1]), ParseTime(LastCall.args[2])))
    /\ UNCHANGED <<hookVars, now, memoVars>>

\* lines 126-133
EvalGetStandardByMonth ==
    /\ Pending("getStandardByMonth")
    /\ Return(getStandardByMonth(LastCall.args[1]))
    /\ UNCHANGED <<hookVars, now, memoVars>>

\* lines 135-139
EvalCalculateInterpolatedWakeWindow ==
    /\ Pending("calculateInterpolatedWakeWindow")
    /\ Return(calculateInterpolatedWakeWindow(LastCall.args[1], LastCall.args[2]))
    /\ UNCHANGED <<hookVars, now, memoVars>>

\* the minute count of a text is written back as a text
ThenMinutesToTime ==
    /\ Len(calls) = 1
    /\ Completed("timeToMinutes")
    /\ calls' = Append(calls, Call("minutesToTime", <<LastCall.ret>>))
    /\ UNCHANGED <<hookVars, now, memoVars>>

\* the duration between a time and the time some minutes away from it, in
\* either order
ThenGetDuration ==
    /\ Len(calls) = 1
    /\ Completed("addMinutes")
    /\ \/ calls' = Append(calls, Call("getDuration", <<LastCall.ret, LastCall.args[1]>>))
       \/ calls' = Append(calls, Call("getDuration", <<LastCall.args[1], LastCall.ret>>))
    /\ UNCHANGED <<hookVars, now, memoVars>>

\* the same band is interpolated at a later month
ThenInterpolate ==
    /\ Len(calls) = 1
    /\ Completed("calculateInterpolatedWakeWindow")
    /\ \E b \in Months :
          /\ LastCall.args[1] <= b
          /\ calls' = Append(calls, Call("calculateInterpolatedWakeWindow",
                                         <<b, LastCall.args[2]>>))
    /\ UNCHANGED <<hookVars, now, memoVars>>

Helpers ==
    \/ EvalTimeToMinutes \/ EvalMinutesToTime \/ EvalAddMinutes \/ EvalGetDuration
    \/ EvalGetStandardByMonth \/ EvalCalculateInterpolatedWakeWindow
    \/ ThenMinutesToTime \/ ThenGetDuration \/ ThenInterpolate

HelperSpec == InitHelpers /\ [][Helpers]_vars

---------------------------------------------------------------------------
(* addNap and removeNap as read-modify-write (lines 368-381).  A handler   *)
(* works on the values its closure holds: the nap log, the staged fields   *)
(* (lines 369-372) and, for removeNap, the id of a listed entry (line      *)
(* 476).  setNaps then stores the list computed from those values (lines   *)
(* 373, 380), whatever the log has become in between.  An operation that   *)
(* has read its values and not yet stored its list is a pending call; its  *)
(* first argument is the log it read.                                      *)

\* the list an operation computes from the log it is given
Apply(c, log) ==
    IF c.fn = "addNap"
    THEN SortByStart(Append(log, NapEntry(c.args[4], c.args[2], c.args[3])))
    ELSE SelectSeq(log, LAMBDA n : n.id # c.args[2])

InitSnapshot ==
    /\ ageMonths = 24
    /\ wakeTime = <<5, 0>>
    /\ naps \in {l \in NapLogs : Len(l) <= 1}
    /\ napStart \in NapTimeInputs
    /\ napEnd \in NapTimeInputs
    /\ activeTab = "schedule"
    /\ now = 0
    /\ calls = <<>>
    /\ pc = "start"
    /\ std = Undefined
    /\ specificWakeWindow = Undefined
    /\ events = <<>>
    /\ warnings = <<>>
    /\ currentTime = Undefined
    /\ napsPlanned = Undefined
    /\ remainingNaps = Undefined
    /\ isToddler = Undefined
    /\ nextWakeWindow = Undefined
    /\ i = Undefined
    /\ finalWakeWindow = Undefined
    /\ isStrategicCapping = Undefined

\* lines 369-372: addNap reads the staged fields, the log and the clock
addNapRead ==
    /\ Len(calls) < MaxPending
    /\ napStart # Blank /\ napEnd # Blank
    /\ calls' = Append(calls, Call("addNap", <<naps, napStart, napEnd, now>>))
    /\ UNCHANGED <<hookVars, now, memoVars>>

\* setNaps of the current log in place of the log read
addNapWrite_OnCurrentLog ==
    \E k \in 1..Len(calls) :
        /\ calls[k].fn = "addNap" /\ ~calls[k].returned
        /\ naps' = Apply(calls[k], naps)
        /\ napStart' = Blank
        /\ napEnd' = Blank
        /\ calls' = [calls EXCEPT ![k] = [@ EXCEPT !.returned = TRUE, !.ret = naps']]
        /\ UNCHANGED <<ageMonths, wakeTime, activeTab, now, memoVars>>

\* lines 373-376: setNaps, setNapStart(''), setNapEnd('')
addNapWrite ==
    \E k \in 1..Len(calls) :
        /\ calls[k].fn = "addNap" /\ ~calls[k].returned
        /\ naps' = Apply(calls[k], calls[k].args[1])
        /\ napStart' = Blank
        /\ napEnd' = Blank
        /\ calls' = [calls EXCEPT ![k] = [@ EXCEPT !.returned = TRUE, !.ret = naps']]
        /\ UNCHANGED <<ageMonths, wakeTime, activeTab, now, memoVars>>

\* line 476: removeNap is given the id of an entry of the log
removeNapRead ==
    /\ Len(calls) < MaxPending
    /\ \E k \in 1..Len(naps) :
          calls' = Append(calls, Call("removeNap", <<naps, naps[k].id>>))
    /\ UNCHANGED <<hookVars, now, memoVars>>

\* line 380: setNaps
removeNapWrite ==
    \E k \in 1..Len(calls) :
        /\ calls[k].fn = "removeNap" /\ ~calls[k].returned
        /\ naps' = Apply(calls[k], calls[k].args[1])
        /\ calls' = [calls EXCEPT ![k] = [@ EXCEPT !.returned = TRUE, !.ret = naps']]
        /\ UNCHANGED <<ageMonths, wakeTime, napStart, napEnd, activeTab, now, memoVars>>

ReadModifyWrite ==
    \/ addNapRead \/ addNapWrite \/ removeNapRead \/ removeNapWrite \/ Tick

SnapshotSpec == InitSnapshot /\ [][ReadModifyWrite]_vars

---------------------------------------------------------------------------
(* The second implementation of the same file (lines 725-1508).  Its helper *)
(* functions (lines 881-918) repeat those of lines 102-139 word for word    *)
(* and are the operators above; its knowledge table (lines 775-878) and its *)
(* useMemo callback (lines 943-1133) differ and follow here.  The callback  *)
(* works on the same locals, so its actions use the same variables; it has  *)
(* no isToddler, finalWakeWindow or isStrategicCapping.                     *)

SecondSLEEP_STANDARDS ==
    [k \in AgeGroupKeys |->
       CASE k = "0-3" ->
              [rangeStart |-> 0, rangeEnd |-> 3, minWake |-> 45, maxWake |-> 90,
               naps |-> 4, mode |-> "window", bedtimeWindow |-> 90,
               tooLongNapMinutes |-> 150, latestNapEndTime |-> <<18, 0>>,
               idealBedtime |-> <<20, 0>>]
         [] k = "4-6" ->
              [rangeStart |-> 4, rangeEnd |-> 6, minWake |-> 90, maxWake |-> 150,
               naps |-> 3, mode |-> "window", bedtimeWindow |-> 150,
               tooLongNapMinutes |-> 150, latestNapEndTime |-> <<17, 30>>,
               idealBedtime |-> <<19, 30>>]
         [] k = "7-12" ->
              [rangeStart |-> 7, rangeEnd |-> 12, minWake |-> 150, maxWake |-> 210,
               naps |-> 2, mode |-> "hybrid", bedtimeWindow |-> 210,
               tooLongNapMinutes |-> 150, latestNapEndTime |-> <<16, 30>>,
               idealBedtime |-> <<19, 30>>]
         [] k = "13-18" ->
              [rangeStart |-> 13, rangeEnd |-> 18, minWake |-> 210, maxWake |-> 300,
               naps |-> 1, mode |-> "hybrid", bedtimeWindow |-> 270,
               tooLongNapMinutes |-> 150, latestNapEndTime |-> <<15, 30>>,
               idealBedtime |-> <<19, 30>>]
         [] k = "19-36" ->
              [rangeStart |-> 19, rangeEnd |-> 36, minWake |-> 300, maxWake |-> 360,
               naps |-> 1, mode |-> "clock", bedtimeWindow |-> 330,
               tooLongNapMinutes |-> 150, latestNapEndTime |-> <<15, 30>>,
               idealBedtime |-> <<19, 30>>]
         [] k = "36+" ->
              [rangeStart |-> 37, rangeEnd |-> 60, minWake |-> 360, maxWake |-> 720,
               naps |-> 0, mode |-> "clock", bedtimeWindow |-> 720,
               tooLongNapMinutes |-> 120, latestNapEndTime |-> <<15, 0>>,
               idealBedtime |-> <<20, 0>>]]

\* lines 905-912
SecondGetStandardByMonth(month) ==
    IF month <= 3 THEN SecondSLEEP_STANDARDS["0-3"]
    ELSE IF month <= 6 THEN SecondSLEEP_STANDARDS["4-6"]
    ELSE IF month <= 12 THEN SecondSLEEP_STANDARDS["7-12"]
    ELSE IF month <= 18 THEN SecondSLEEP_STANDARDS["13-18"]
    ELSE IF month <= 36 THEN SecondSLEEP_STANDARDS["19-36"]
    ELSE SecondSLEEP_STANDARDS["36+"]

\* lines 950-958
SecondWakeEvent(wake) ==
    [type |-> "wake", startTime |-> wake,
     title |-> [fmt |-> "Tagesbeginn"],
     description |-> [fmt |-> "Beginn des Wachabschnitts (Schlafdruckaufbau)."],
     reasoning |-> [fmt |-> "Tageslicht am Morgen sowie Fruehstueck und Bewegung unterstuetzen die Synchronisation der inneren Uhr."],
     isPrediction |-> FALSE]

\* line 961
SECOND_EARLY_WAKE_WARNING ==
    [fmt |-> "Sehr fruehes Erwachen (< 06:00): Tagesrhythmus kann nach vorn kippen. Erstes Schlaefchen tendenziell leicht hinauszoegern."]

\* lines 944-965
SecondBeginDerive ==
    /\ pc = "start"
    /\ std' = SecondGetStandardByMonth(ageMonths)
    /\ specificWakeWindow' = calculateInterpolatedWakeWindow(ageMonths, std')
    /\ events' = <<SecondWakeEvent(wakeTime)>>
    /\ warnings' = IF timeToMinutes(wakeTime) < 360
                   THEN <<SECOND_EARLY_WAKE_WARNING>> ELSE <<>>
    /\ currentTime' = wakeTime
    /\ napsPlanned' = 0
    /\ pc' = "observed"
    /\ UNCHANGED <<calls, hookVars, now, remainingNaps, isToddler, nextWakeWindow, i,
                   finalWakeWindow, isStrategicCapping>>

\* lines 969-993 and 995-1004; index counts from 0
SecondObservedEvent(nap, index, s) ==
    LET short == nap.duration < 45
        long == nap.duration > s.tooLongNapMinutes
    IN  [type |-> "nap", startTime |-> nap.startTime, endTime |-> nap.endTime,
         title |-> [fmt |-> "Nickerchen %s", n |-> index + 1],
         description |-> [fmt |-> IF short THEN "%s min. Kurz"
                                  ELSE IF long THEN "%s min. Sehr lang"
                                  ELSE "%s min. Erholsam",
                          mins |-> nap.duration],
         reasoning |-> [fmt |-> IF short THEN "Kurzer Nap"
                                ELSE IF long THEN "Sehr langer Tagschlaf"
                                ELSE "Gute Nap-Laenge"],
         isPrediction |-> FALSE,
         alertLevel |-> IF short \/ long THEN "warning" ELSE "normal"]

\* lines 968-1012, one iteration of naps.forEach; index = napsPlanned
SecondObservedNap ==
    /\ pc = "observed"
    /\ napsPlanned < Len(naps)
    /\ LET nap == naps[napsPlanned + 1]
           index == napsPlanned
       IN  /\ events' = Append(events, SecondObservedEvent(nap, index, std))
           /\ currentTime' = nap.endTime
           /\ warnings' =
                  IF nap.duration < 45 /\ index < std.naps - 1
                  THEN Append(warnings,
                              [fmt |-> "Nap %s war kurz. Naechstes Wachfenster etwas verkuerzen.",
                               n |-> index + 1])
                  ELSE warnings
    /\ napsPlanned' = napsPlanned + 1
    /\ UNCHANGED <<calls, hookVars, now, pc, std, specificWakeWindow,
                   remainingNaps, isToddler, nextWakeWindow, i,
                   finalWakeWindow, isStrategicCapping>>

\* lines 1016-1035, up to the loop's initialisation
SecondPlanPredictions ==
    /\ pc = "observed"
    /\ napsPlanned = Len(naps)
    /\ remainingNaps' = Max(0, std.naps - napsPlanned)
    /\ nextWakeWindow' = IF Len(naps) > 0 /\ naps[Len(naps)].duration < 45
                         THEN MathRound(specificWakeWindow * 85, 100)
                         ELSE specificWakeWindow
    /\ i' = 0
    /\ pc' = "predict"
    /\ UNCHANGED <<calls, hookVars, now, std, specificWakeWindow, events, warnings,
                   currentTime, napsPlanned, isToddler, finalWakeWindow,
                   isStrategicCapping>>

\* line 1028
isClockMode(s) == s.mode = "clock"

\* lines 1042-1045
predictedNapStart(cur, window, s, planned) ==
    IF isClockMode(s) /\ s.naps = 1 /\ planned = 0
    THEN <<12, 30>>
    ELSE addMinutes(cur, window)

\* line 1048
predictedDuration(s, napNumber) ==
    IF s.naps >= 3 /\ napNumber = s.naps THEN 30 ELSE 90

\* lines 1062-1064 and 1066-1074
SecondPredictedEvent(start, duration, napNumber, window, s, age) ==
    [type |-> "nap", startTime |-> start, endTime |-> addMinutes(start, duration),
     title |-> [fmt |-> "Vorschlag: Nap %s", n |-> napNumber],
     description |-> [fmt |-> "Voraussichtliche Dauer: ca. %s Min.", mins |-> duration],
     reasoning |-> IF isClockMode(s) /\ s.naps = 1
                   THEN [fmt |-> "Im Uhrzeit-Modus wird der Mittagsschlaf bewusst by the clock geplant, um die innere Uhr zu stabilisieren."]
                   ELSE [fmt |-> "Orientierungswert fuer %s Monate: Wachfenster ca. %s Std.",
                         n |-> age, tenths |-> HoursWakeTenths(window)],
     isPrediction |-> TRUE]

\* lines 1035-1084, one iteration of the for loop
SecondPredictNap ==
    /\ pc = "predict"
    /\ i < remainingNaps
    /\ LET napNumber == napsPlanned + i + 1
           start == predictedNapStart(currentTime, nextWakeWindow, std, napsPlanned)
           duration == predictedDuration(std, napNumber)
           predictedNapEnd == addMinutes(start, duration)
       IN  /\ warnings' =
                  IF std.latestNapEndTime # Blank
                     /\ timeToMinutes(predictedNapEnd) > timeToMinutes(std.latestNapEndTime)
                  THEN Append(warnings,
                              [fmt |-> "Nap %s wuerde voraussichtlich sehr spaet enden (nach %s).",
                               n |-> napNumber, t1 |-> std.latestNapEndTime])
                  ELSE warnings
           /\ events' = Append(events,
                               SecondPredictedEvent(start, duration, napNumber,
                                                    nextWakeWindow, std, ageMonths))
           /\ currentTime' = predictedNapEnd
    /\ nextWakeWindow' = Min(std.maxWake, specificWakeWindow + 15)
    /\ i' = i + 1
    /\ UNCHANGED <<calls, hookVars, now, pc, std, specificWakeWindow, napsPlanned,
                   remainingNaps, isToddler, finalWakeWindow, isStrategicCapping>>

\* lines 1087-1091: Math.round(std.bedtimeWindow - 15 + 30 * progress)
bedtimeWakeWindow(age, s) ==
    IF s.mode = "window" \/ s.mode = "hybrid"
    THEN MathRound((s.bedtimeWindow - 15) * (s.rangeEnd - s.rangeStart)
                     + 30 * (age - s.rangeStart),
                   s.rangeEnd - s.rangeStart)
    ELSE s.bedtimeWindow

\* lines 1105-1130
SecondBedtimeEvent(cur, window) ==
    LET bedtime == addMinutes(cur, window)
        bedtimeMins == timeToMinutes(bedtime)
        early == bedtimeMins < 1080 /\ bedtimeMins > 360
        late == ~early /\ bedtimeMins > 1260
    IN  [type |-> "bedtime",
         startTime |-> IF early THEN <<18, 0>> ELSE bedtime,
         title |-> [fmt |-> "Bettzeit"],
         description |-> [fmt |-> IF early
                                  THEN "Fruehere Bettzeit zur Stabilisierung (Uebermuedung vorbeugen)."
                                  ELSE IF late THEN "Hinweis: Spaeter Schlafbeginn moeglich."
                                  ELSE "Beginn der Nachtruhe."],
         reasoning |-> IF early
                       THEN [fmt |-> "Die rechnerische Bettzeit waere sehr frueh."]
                       ELSE IF late
                       THEN [fmt |-> "Bei sehr spaetem Einschlafen steigt das Risiko fuer Second Wind."]
                       ELSE [fmt |-> "Berechnung: Ende des letzten Schlafs + %s Std. Wachzeit.",
                             tenths |-> HoursWakeTenths(window)],
         isPrediction |-> TRUE,
         alertLevel |-> IF early THEN "warning" ELSE IF late THEN "critical" ELSE "normal"]

\* lines 1086-1133
SecondBedtime ==
    /\ pc = "predict"
    /\ i >= remainingNaps
    /\ LET window == bedtimeWakeWindow(ageMonths, std)
       IN  /\ warnings' =
                  IF Len(naps) > 0 /\ std.idealBedtime # Blank
                     /\ timeToMinutes(naps[Len(naps)].endTime) + window
                          > timeToMinutes(std.idealBedtime)
                  THEN Append(warnings,
                              [fmt |-> "Der letzte Tagschlaf endet im Verhaeltnis zur Ziel-Bettzeit (%s) eher spaet.",
                               t1 |-> std.idealBedtime])
                  ELSE warnings
           /\ events' = Append(events, SecondBedtimeEvent(currentTime, window))
    /\ pc' = "done"
    /\ UNCHANGED <<calls, hookVars, now, std, specificWakeWindow, currentTime,
                   napsPlanned, remainingNaps, isToddler, nextWakeWindow, i,
                   finalWakeWindow, isStrategicCapping>>

SecondDerive ==
    \/ SecondBeginDerive
    \/ SecondObservedNap
    \/ SecondPlanPredictions
    \/ SecondPredictNap
    \/ SecondBedtime

\* every input of the grid of InitDerive, then the second callback
SecondDeriveSpec == InitDerive /\ [][SecondDerive]_vars

---------------------------------------------------------------------------
(* Properties of the derivation.  The callback has returned when pc is     *)
(* "done"; events and warnings are then the lists it returns.              *)

Returned == pc = "done"
NapCount == Len(naps)
Band == getStandardByMonth(ageMonths)
WakeMins == timeToMinutes(wakeTime)
BedtimeIdx == Len(events)
\* the positions of the predicted naps in the returned list
PredictedIdx ==
    {j \in 1..Len(events) : events[j].type = "nap" /\ events[j].isPrediction}
\* the capped strategy was chosen: the nap carries the capping title
CappingUsed ==
    \E j \in 1..Len(events) :
        events[j].type = "nap" /\ events[j].title.fmt = CAPPING_TITLE
InWarnings(w) == \E k \in 1..Len(warnings) : warnings[k] = w
\* minute of day of the end of a predicted nap against the band's limit
IsLateEnd(e) == timeToMinutes(e.endTime) > timeToMinutes(Band.latestNapEndTime)
HasLateNote(e) ==
    \E k \in 1..Len(e.reasoning) : e.reasoning[k].fmt = LATE_END_NOTE

\* C1: for an age of 19..36 and an empty nap log, when the capped strategy is
\* chosen the one predicted nap starts at wakeTime + 360, lasts 75 minutes, has
\* severity warning, the capping warning is in the warnings, and the bedtime
\* starts 360 minutes after the nap's end under the title "Ziel-Bettzeit";
\* age 24, wake 05:00 gives nap 11:00-12:15 and bedtime 18:15.
C1_CappedChain ==
    (Returned /\ ageMonths \in 19..36 /\ naps = <<>> /\ CappingUsed) =>
        /\ Len(events) = 3
        /\ PredictedIdx = {2}
        /\ events[2].startTime = minutesToTime(WakeMins + 360)
        /\ getDuration(events[2].startTime, events[2].endTime) = 75
        /\ events[2].endTime = addMinutes(events[2].startTime, 75)
        /\ events[2].alertLevel = "warning"
        /\ InWarnings(CAPPING_WARNING)
        /\ events[3].type = "bedtime"
        /\ events[3].startTime = addMinutes(events[2].endTime, 360)
        /\ events[3].title.fmt = "Ziel-Bettzeit"
        /\ (ageMonths = 24 /\ wakeTime = <<5, 0>>) =>
              /\ events[2].startTime = <<11, 0>>
              /\ events[2].endTime = <<12, 15>>
              /\ events[3].startTime = <<18, 15>>

C1_Witness ==
    /\ Returned /\ ageMonths = 24 /\ wakeTime = <<5, 0>> /\ naps = <<>>
    /\ CappingUsed
    /\ events[3].startTime = <<18, 15>>

\* the nap of the clock branch when the capped strategy is not chosen
ClockPlacement ==
    /\ Len(events) = 3
    /\ ~CappingUsed
    /\ events[2].startTime =
           minutesToTime(Min(Max(WakeMins + 300, 750), WakeMins + 360))
    /\ events[2].endTime = addMinutes(events[2].startTime, 90)
    /\ events[2].alertLevel = IF IsLateEnd(events[2]) THEN "warning" ELSE "normal"

\* C2 as stated: for an age of 19..36 and an empty nap log the capped strategy
\* is used whenever wakeTime + 360 is at least 30 minutes before 12:30 (at or
\* before 12:00); otherwise the nap starts at
\* min(max(wakeTime + 300, 12:30), wakeTime + 360), lasts 90 minutes and is
\* normal unless its end is late.
C2_AsStated ==
    (Returned /\ ageMonths \in 19..36 /\ naps = <<>>) =>
        IF WakeMins + 360 <= 750 - 30 THEN CappingUsed ELSE ClockPlacement

\* C2, amended: the capped strategy is used whenever wakeTime + 360 is more
\* than 30 minutes before 12:30 (strictly before 12:00); otherwise the nap
\* starts at min(max(wakeTime + 300, 12:30), wakeTime + 360), lasts 90 minutes
\* and is normal unless its end is late.
C2_ClockPlacement ==
    (Returned /\ ageMonths \in 19..36 /\ naps = <<>>) =>
        IF WakeMins + 360 < 750 - 30 THEN CappingUsed ELSE ClockPlacement

\* wake 06:00: the earliest tolerable start is 12:00, exactly 30 minutes before
\* the anchor, and the nap is placed by the clock rule
C2_Witness ==
    /\ Returned /\ ageMonths \in 19..36 /\ naps = <<>> /\ wakeTime = <<6, 0>>
    /\ ~CappingUsed
    /\ events[2].startTime = <<12, 0>>

\* the warnings the list can hold that speak of the bedtime
MentionsBedtime(w) == w = CAPPING_WARNING

\* C3 as stated: every predicted nap whose end is later than the band's
\* latestNapEndTime has a warning about the bedtime in the warnings list and a
\* severity of at least warning; a predicted nap whose end is not later gets
\* neither.
C3_AsStated ==
    Returned =>
        /\ \A j \in PredictedIdx :
              IF IsLateEnd(events[j])
              THEN /\ \E k \in 1..Len(warnings) : MentionsBedtime(warnings[k])
                   /\ events[j].alertLevel \in {"warning", "critical"}
              ELSE events[j].alertLevel = "normal"
        /\ (\A j \in PredictedIdx : ~IsLateEnd(events[j])) =>
              ~\E k \in 1..Len(warnings) : MentionsBedtime(warnings[k])

\* C3, amended: every predicted nap whose end is later than the band's
\* latestNapEndTime has severity warning and the bedtime-risk note, with its end
\* time, appended to its own reasoning; a predicted nap whose end is not later
\* has no such note and is normal unless it is the capped nap; the warnings list
\* receives nothing for a late end.
C3_LateNapEnd ==
    Returned =>
        /\ \A j \in PredictedIdx :
              IF IsLateEnd(events[j])
              THEN /\ events[j].alertLevel = "warning"
                   /\ events[j].reasoning[Len(events[j].reasoning)] =
                          [fmt |-> LATE_END_NOTE, t1 |-> events[j].endTime]
              ELSE /\ ~HasLateNote(events[j])
                   /\ events[j].alertLevel =
                          IF events[j].title.fmt = CAPPING_TITLE
                          THEN "warning" ELSE "normal"
        /\ \A k \in 1..Len(warnings) :
              warnings[k] \in {EARLY_WAKE_WARNING, SHORT_NAP_WARNING, CAPPING_WARNING}

\* a late predicted nap while the warnings list is empty
C3_Witness ==
    /\ Returned
    /\ warnings = <<>>
    /\ \E j \in PredictedIdx : IsLateEnd(events[j]) /\ events[j].alertLevel = "warning"

\* C4: when the last entry of a non-empty nap log is shorter than 45 minutes the
\* short-nap warning is appended and the first predicted nap, if there is one,
\* starts round(0.8 x w) after that entry's end, which is less than the
\* interpolated wake-window w; when it is not shorter the first predicted nap
\* starts w after its end and there is no such warning.
C4_ShortNapAdjustment ==
    (Returned /\ NapCount > 0) =>
        LET last == naps[NapCount]
            w == calculateInterpolatedWakeWindow(ageMonths, Band)
            reduced == (8 * w + 5) \div 10
            first == NapCount + 2
        IN  IF last.duration < 45
            THEN /\ InWarnings(SHORT_NAP_WARNING)
                 /\ reduced < w
                 /\ (first \in PredictedIdx) =>
                        events[first].startTime = addMinutes(last.endTime, reduced)
            ELSE /\ ~InWarnings(SHORT_NAP_WARNING)
                 /\ (first \in PredictedIdx) =>
                        events[first].startTime = addMinutes(last.endTime, w)

C4_Witness ==
    /\ Returned /\ NapCount = 2
    /\ naps[1].duration >= 45 /\ naps[2].duration < 45
    /\ (NapCount + 2) \in PredictedIdx
    /\ InWarnings(SHORT_NAP_WARNING)

\* C5: the returned list has 2 + k + max(0, band.naps - k) entries for a log of
\* k entries: the wake event at wakeTime, the k observed naps in log order with
\* the log's times, then the predicted naps, then one predicted bedtime.
C5_EventListShape ==
    Returned =>
        LET k == NapCount
            r == IF Band.naps - k > 0 THEN Band.naps - k ELSE 0
        IN  /\ Len(events) = 2 + k + r
            /\ events[1].type = "wake"
            /\ events[1].startTime = wakeTime
            /\ ~events[1].isPrediction
            /\ \A j \in 1..k :
                  /\ events[1 + j].type = "nap"
                  /\ events[1 + j].startTime = naps[j].startTime
                  /\ events[1 + j].endTime = naps[j].endTime
                  /\ ~events[1 + j].isPrediction
            /\ \A j \in (k + 2)..(k + 1 + r) :
                  events[j].type = "nap" /\ events[j].isPrediction
            /\ events[2 + k + r].type = "bedtime"
            /\ events[2 + k + r].isPrediction

\* observed and predicted naps in one list, and a log longer than the target
C5_Witness ==
    /\ Returned /\ NapCount = 2
    /\ \/ Band.naps = 4 /\ Len(events) = 6
       \/ Band.naps = 1 /\ Len(events) = 4

\* the four naps of scenario 2 are placed by the wake-window rule
Scenario2 == Returned /\ ageMonths = 2 /\ wakeTime = <<8, 0>> /\ naps = <<>>
Scenario2Shape ==
    /\ Band.naps = 4
    /\ PredictedIdx = 2..5
    /\ \A j \in 2..5 :
          /\ events[j].title.fmt = "Vorschlag: Nap %s"
          /\ events[j].reasoning[1].fmt = "Basiert auf Wachfenster von ca. %s Std."

\* C6 as stated: age 2, wake 08:00, empty log: four predicted naps, none placed
\* by the clock or capped rule, each starting one age-interpolated wake-window
\* after the end of the preceding event.
C6_AsStated ==
    Scenario2 =>
        /\ Scenario2Shape
        /\ LET w == calculateInterpolatedWakeWindow(2, Band)
           IN  /\ events[2].startTime = addMinutes(events[1].startTime, w)
               /\ \A j \in 3..5 :
                     events[j].startTime = addMinutes(events[j - 1].endTime, w)

\* C6, amended: the first of the four starts one age-interpolated wake-window
\* (75 minutes) after the wake time; the second, third and fourth start
\* band.maxWake (90 minutes) after the end of the preceding nap.
C6_Scenario2 ==
    Scenario2 =>
        /\ Scenario2Shape
        /\ calculateInterpolatedWakeWindow(2, Band) = 75
        /\ events[2].startTime = addMinutes(events[1].startTime, 75)
        /\ \A j \in 3..5 :
              events[j].startTime = addMinutes(events[j - 1].endTime, 90)

C6_Witness ==
    /\ Scenario2
    /\ events[2].startTime = <<9, 15>>
    /\ events[3].startTime = <<12, 15>>

\* C7: when the capped strategy was not used the bedtime is early (warning)
\* below 18:00, late (critical) above 21:00 and normal from 18:00 to 21:00, and
\* it starts one bedtime wake-window after the cursor, which is the end of the
\* last nap or the wake time.
C7_BedtimeClassification ==
    (Returned /\ ~CappingUsed) =>
        LET b == events[BedtimeIdx]
            mins == timeToMinutes(b.startTime)
            cursor == IF BedtimeIdx > 2 THEN events[BedtimeIdx - 1].endTime
                      ELSE wakeTime
        IN  /\ b.type = "bedtime"
            /\ mins < 1080 => b.alertLevel = "warning" /\ b.title.fmt = "Fruehe Bettzeit"
            /\ mins > 1260 => b.alertLevel = "critical" /\ b.title.fmt = "Spaete Bettzeit"
            /\ (mins >= 1080 /\ mins <= 1260) =>
                   b.alertLevel = "normal" /\ b.title.fmt = "Bettzeit"
            /\ currentTime = cursor
            /\ b.startTime = addMinutes(cursor, finalWakeWindow)

\* a bedtime at 21:00 sharp, and one at 18:00 sharp
C7_Witness ==
    /\ Returned /\ ~CappingUsed
    /\ events[BedtimeIdx].startTime \in {<<21, 0>>, <<18, 0>>}
    /\ events[BedtimeIdx].alertLevel = "normal"

\* the bedtime wake-window before the shrink
UnshrunkBedtimeWindow ==
    IF Band.mode = "clock" THEN Band.bedtimeWindow
    ELSE LET den == Band.rangeEnd - Band.rangeStart
             num == (Band.bedtimeWindow - 30) * den + 60 * (ageMonths - Band.rangeStart)
         IN  (2 * num + den) \div (2 * den)

\* C8: when the capped strategy was not used and the last nap event (observed
\* or predicted) has severity warning, the bedtime wake-window is
\* round(0.9 x W); when it is normal or there is no nap event it is W.
C8_BedtimeWindowShrink ==
    (Returned /\ ~CappingUsed) =>
        LET W == UnshrunkBedtimeWindow
            hasNap == BedtimeIdx > 2
        IN  IF hasNap /\ events[BedtimeIdx - 1].alertLevel = "warning"
            THEN finalWakeWindow = (9 * W + 5) \div 10
            ELSE /\ finalWakeWindow = W
                 /\ hasNap => events[BedtimeIdx - 1].alertLevel = "normal"

\* the shrink after a predicted nap that ends late, in a band without the
\* age correction, and after an observed short nap in a band with it
C8_Witness ==
    /\ Returned /\ ~CappingUsed /\ BedtimeIdx > 2
    /\ events[BedtimeIdx - 1].alertLevel = "warning"
    /\ finalWakeWindow < UnshrunkBedtimeWindow
    /\ \/ Band.mode = "clock" /\ events[BedtimeIdx - 1].isPrediction
       \/ Band.mode # "clock" /\ ~events[BedtimeIdx - 1].isPrediction

\* C9: the event of every observed nap is a warning when the nap is shorter
\* than 45 minutes or longer than the band's tooLongNapMinutes and normal
\* otherwise, with the too-short and too-long reasoning, and the cursor moves
\* to the nap's end.
C9_ObservedNapClassification ==
    (pc \in {"observed", "predict", "done"}) =>
        /\ \A j \in 1..napsPlanned :
              LET nap == naps[j]
                  e == events[1 + j]
              IN  /\ e.alertLevel =
                         IF nap.duration < 45 \/ nap.duration > Band.tooLongNapMinutes
                         THEN "warning" ELSE "normal"
                  /\ nap.duration < 45 => e.reasoning = <<[fmt |-> CRAP_NAP_REASON]>>
                  /\ nap.duration > Band.tooLongNapMinutes =>
                         e.reasoning = <<[fmt |-> TOO_LONG_REASON]>>
        /\ (pc = "observed" /\ napsPlanned > 0) =>
               currentTime = naps[napsPlanned].endTime

\* a too-long nap and a nap of exactly the threshold in one log
C9_Witness ==
    /\ pc = "observed" /\ napsPlanned = 2
    /\ naps[1].duration = Band.tooLongNapMinutes
    /\ naps[2].duration > Band.tooLongNapMinutes
    /\ events[2].alertLevel = "normal" /\ events[3].alertLevel = "warning"
    /\ currentTime = naps[2].endTime

\* C10: the early-wake warning is in the warnings exactly when the wake time is
\* before 06:00, and it is then their first entry.
C10_EarlyWakeWarning ==
    (pc # "start") =>
        /\ InWarnings(EARLY_WAKE_WARNING) <=> WakeMins < 360
        /\ InWarnings(EARLY_WAKE_WARNING) => warnings[1] = EARLY_WAKE_WARNING

\* an early wake followed by further warnings
C10_Witness ==
    /\ Returned /\ WakeMins < 360
    /\ Len(warnings) >= 2
    /\ warnings[1] = EARLY_WAKE_WARNING

---------------------------------------------------------------------------
(* Properties of the helper functions, read off the recorded calls *)

\* the bands whose range of months holds the month a
BandsHolding(a) ==
    {k \in AgeGroupKeys :
        SLEEP_STANDARDS[k].rangeStart <= a /\ a <= SLEEP_STANDARDS[k].rangeEnd}

\* C11: getStandardByMonth(a), for an integer a >= 0, returns the one band
\* whose range rangeStart..rangeEnd holds a when a <= 60, and the last band
\* ("36+") when a > 60; exactly one band holds each month of 0..60; the months
\* 3, 6, 12, 18, 36 are the last month of the band returned and the months
\* 4, 7, 13, 19, 37 the first month of the band returned.
C11_BandResolution ==
    Completed("getStandardByMonth") =>
        LET a    == LastCall.args[1]
            band == LastCall.ret
        IN  /\ a <= SLEEP_STANDARDS["36+"].rangeEnd =>
                   /\ Cardinality(BandsHolding(a)) = 1
                   /\ \A k \in BandsHolding(a) : band = SLEEP_STANDARDS[k]
            /\ a > SLEEP_STANDARDS["36+"].rangeEnd => band = SLEEP_STANDARDS["36+"]
            /\ a \in {3, 6, 12, 18, 36} => band.rangeEnd = a
            /\ a \in {4, 7, 13, 19, 37} => band.rangeStart = a

\* month 36 has resolved to the toddler band, the last month of its range
C11_Witness ==
    /\ Completed("getStandardByMonth")
    /\ LastCall.args[1] = 36
    /\ LastCall.ret = SLEEP_STANDARDS["19-36"]

InRange(a, s) == s.rangeStart <= a /\ a <= s.rangeEnd

\* C12: for every band and integer months a <= b that both lie in the band's
\* range, calculateInterpolatedWakeWindow(a, band) is at most
\* calculateInterpolatedWakeWindow(b, band); the value is the band's minWake
\* at rangeStart and its maxWake at rangeEnd.
C12_Interpolation ==
    Completed("calculateInterpolatedWakeWindow") =>
        LET b == LastCall.args[1]
            s == LastCall.args[2]
        IN  /\ b = s.rangeStart => LastCall.ret = s.minWake
            /\ b = s.rangeEnd => LastCall.ret = s.maxWake
            /\ (Len(calls) = 2 /\ InRange(calls[1].args[1], s) /\ InRange(b, s)) =>
                   /\ calls[1].args[1] <= b
                   /\ calls[1].ret <= LastCall.ret

\* the toddler band at 19 months (300, its minWake) and then at 24 months
\* (318)
C12_Witness ==
    /\ Len(calls) = 2
    /\ Completed("calculateInterpolatedWakeWindow")
    /\ LastCall.args[2] = SLEEP_STANDARDS["19-36"]
    /\ calls[1].args[1] = 19
    /\ calls[1].ret = 300
    /\ LastCall.args[1] = 24
    /\ LastCall.ret = 318

\* C13: for every hour h of 0..23 and minute m of 0..59, with t the text
\* "HH:MM" of (h, m): minutesToTime(timeToMinutes(t)) = t.
C13_TimeRoundTrip ==
    (/\ Len(calls) = 2
     /\ Completed("minutesToTime")
     /\ calls[1].fn = "timeToMinutes"
     /\ calls[1].args[1] \in ClockTexts) =>
        /\ LastCall.args[1] = calls[1].ret
        /\ LastCall.ret = calls[1].args[1]

\* "05:07" was read as 307 minutes and 307 written back as "05:07"
C13_Witness ==
    /\ Len(calls) = 2
    /\ Completed("minutesToTime")
    /\ calls[1].fn = "timeToMinutes"
    /\ calls[1].args[1] = <<"0", "5", ":", "0", "7">>
    /\ calls[1].ret = 307
    /\ LastCall.ret = <<"0", "5", ":", "0", "7">>

\* C14: for a valid time t and 0 < d < 1440,
\* getDuration(addMinutes(t, d), t) = 1440 - d and
\* getDuration(t, addMinutes(t, d)) = d; and the duration of two valid times,
\* as addNap computes it for a new entry, is at least 0 and below 1440.
C14_DurationWraparound ==
    Completed("getDuration") =>
        /\ (/\ Len(calls) = 2
            /\ calls[1].fn = "addMinutes"
            /\ calls[1].args[1] \in ClockTexts
            /\ 0 < calls[1].args[2]
            /\ calls[1].args[2] < MinutesPerDay) =>
               /\ LastCall.args = <<calls[1].ret, calls[1].args[1]>> =>
                      LastCall.ret = MinutesPerDay - calls[1].args[2]
               /\ LastCall.args = <<calls[1].args[1], calls[1].ret>> =>
                      LastCall.ret = calls[1].args[2]
        /\ (LastCall.args[1] \in ClockTexts /\ LastCall.args[2] \in ClockTexts) =>
               (0 <= LastCall.ret /\ LastCall.ret < MinutesPerDay)

\* 1439 minutes after "23:00" is "22:59", and from "22:59" to "23:00" is one
\* minute
C14_Witness ==
    /\ Len(calls) = 2
    /\ Completed("getDuration")
    /\ calls[1].fn = "addMinutes"
    /\ calls[1].args = <<TimeInputValue(23, 0), 1439>>
    /\ calls[1].ret = <<"2", "2", ":", "5", "9">>
    /\ LastCall.args = <<calls[1].ret, calls[1].args[1]>>
    /\ LastCall.ret = 1

\* the text "HH:MM" of the minute of day n, 0 <= n < 1440, and the minute of
\* day such a text stands for
ClockText(n) == TimeInputValue(n \div 60, n % 60)
MinuteOfDay(t) == CHOOSE n \in 0..(MinutesPerDay - 1) : ClockText(n) = t

\* C15: for a valid time t and every delta with -1440 < delta < 1440, negative
\* ones included, addMinutes(t, delta) is the zero-padded "HH:MM" text of
\* (timeToMinutes(t) + delta) mod 1440, with hours 0..23 and minutes 0..59;
\* and minutesToTime(m) is the text of m mod 1440 for negative and for
\* overflowing m.
C15_AsStated ==
    /\ (Completed("addMinutes") /\ LastCall.args[1] \in ClockTexts) =>
           LastCall.ret =
               ClockText((MinuteOfDay(LastCall.args[1]) + LastCall.args[2]) % MinutesPerDay)
    /\ (Len(calls) = 1 /\ Completed("minutesToTime")) =>
           LastCall.ret = ClockText(LastCall.args[1] % MinutesPerDay)

\* what the code does keep: the claim's result whenever the minute count
\* handed to minutesToTime is not negative
C15_NonNegativeTotals ==
    /\ (/\ Completed("addMinutes")
        /\ LastCall.args[1] \in ClockTexts
        /\ MinuteOfDay(LastCall.args[1]) + LastCall.args[2] >= 0) =>
           LastCall.ret =
               ClockText((MinuteOfDay(LastCall.args[1]) + LastCall.args[2]) % MinutesPerDay)
    /\ (Len(calls) = 1 /\ Completed("minutesToTime") /\ LastCall.args[1] >= 0) =>
           LastCall.ret = ClockText(LastCall.args[1] % MinutesPerDay)

\* one minute before "00:00" has come out as "23:-1"
C15_NegativeMinutes ==
    /\ Completed("addMinutes")
    /\ LastCall.args = <<TimeInputValue(0, 0), -1>>
    /\ LastCall.ret = <<"2", "3", ":", "-", "1">>

---------------------------------------------------------------------------
(* Properties of the nap log under the handlers *)

\* list without its p-th element
Without(list, p) == SubSeq(list, 1, p - 1) \o SubSeq(list, p + 1, Len(list))

\* a step that lengthens the log puts one entry into it, behind every entry
\* that starts no later and in front of every entry that starts later; the
\* entries already there keep their order
InsertedBehindEqualStarts ==
    Len(naps') > Len(naps) =>
        \E p \in 1..Len(naps') :
            /\ Without(naps', p) = naps
            /\ \A j \in 1..(p - 1) :
                   timeToMinutes(naps'[j].startTime) <= timeToMinutes(naps'[p].startTime)
            /\ \A j \in (p + 1)..Len(naps') :
                   timeToMinutes(naps'[j].startTime) > timeToMinutes(naps'[p].startTime)

\* a step that shortens the log leaves the remaining entries in their order
RemainingKeepOrder ==
    Len(naps') < Len(naps) =>
        \E kept \in SUBSET (1..Len(naps)) :
            naps' = SelectSeq([k \in 1..Len(naps) |-> IF k \in kept THEN naps[k] ELSE Blank],
                              LAMBDA n : n # Blank)

\* C16: after any sequence of addNap, removeNap and age changes the nap log is
\* sorted by the minute of day of the start, non-decreasing, and entries with
\* equal starts stand in the order in which they were added.
C16_SortedNapLog ==
    /\ [](IsSortedByStart(naps))
    /\ [][InsertedBehindEqualStarts /\ RemainingKeepOrder]_vars

\* two entries with the same start, the one added first (at an earlier clock
\* value) in front
C16_Witness ==
    /\ Len(naps) = 2
    /\ naps[1].startTime = naps[2].startTime
    /\ naps[1].id < naps[2].id

\* C17: addNap invoked while the staged start or the staged end is blank
\* leaves the nap log and both staged fields unchanged; invoked with both
\* non-blank it adds exactly one entry, of the staged start and end and of
\* duration getDuration(start, end), and resets both staged fields to blank.
C17_BlankRejection ==
    [][addNap =>
         IF napStart = Blank \/ napEnd = Blank
         THEN naps' = naps /\ napStart' = napStart /\ napEnd' = napEnd
         ELSE /\ \E p \in 1..Len(naps') :
                    /\ Without(naps', p) = naps
                    /\ naps'[p].startTime = napStart
                    /\ naps'[p].endTime = napEnd
                    /\ naps'[p].duration = getDuration(napStart, napEnd)
              /\ napStart' = Blank
              /\ napEnd' = Blank]_vars

\* the entry 09:00-09:30 has been added and the staged fields are blank again
C17_Witness ==
    /\ Len(naps) = 1
    /\ naps[1].startTime = <<9, 0>>
    /\ naps[1].endTime = <<9, 30>>
    /\ naps[1].duration = 30
    /\ napStart = Blank
    /\ napEnd = Blank

DistinctIds ==
    \A j, k \in 1..Len(naps) : j # k => naps[j].id # naps[k].id

\* C18: in every reachable nap log the ids are pairwise distinct, so that
\* removeNap(id) removes exactly the one entry of that id and leaves the
\* others in the log, in the same order.
C18_AsStated ==
    /\ []DistinctIds
    /\ [][removeNap => \E p \in 1..Len(naps) : naps' = Without(naps, p)]_vars

\* two entries added at the same value of Date.now() carry the same id
C18_SharedId ==
    /\ Len(naps) = 2
    /\ naps[1].id = naps[2].id

---------------------------------------------------------------------------
(* Scenario 1: 24 months, wake 05:00, empty nap log *)

Scenario1 == Returned /\ ageMonths = 24 /\ wakeTime = <<5, 0>> /\ naps = <<>>

\* C20 as the specification states it: for 24 months, wake 05:00 and an empty
\* nap log the bedtime event, whose wake window is forced to 360 minutes,
\* starts at "17:15".
C20_AsStated ==
    Scenario1 =>
        /\ events[BedtimeIdx].type = "bedtime"
        /\ finalWakeWindow = 360
        /\ FormatTime(events[BedtimeIdx].startTime) = <<"1", "7", ":", "1", "5">>

\* C20: for 24 months, wake 05:00 and an empty nap log the bedtime event,
\* whose wake window is forced to 360 minutes, starts at "18:15": 360 minutes
\* after the end ("12:15") of the capped nap.
C20_Scenario1Bedtime ==
    Scenario1 =>
        /\ events[BedtimeIdx].type = "bedtime"
        /\ isStrategicCapping
        /\ finalWakeWindow = 360
        /\ FormatTime(events[BedtimeIdx - 1].endTime) = <<"1", "2", ":", "1", "5">>
        /\ FormatTime(events[BedtimeIdx].startTime) = <<"1", "8", ":", "1", "5">>

C20_Witness ==
    /\ Scenario1
    /\ Len(events) = 3
    /\ events[3].type = "bedtime"
    /\ finalWakeWindow = 360
    /\ FormatTime(events[3].startTime) = <<"1", "8", ":", "1", "5">>

---------------------------------------------------------------------------
(* Further properties of the derivation *)

WINDOW_REASON == "Basiert auf Wachfenster von ca. %s Std."

\* the time at which the event before position j ends: the wake time for
\* the wake event, the end of the nap for a nap
EndBefore(j) ==
    IF events[j - 1].type = "wake" THEN events[j - 1].startTime
    ELSE events[j - 1].endTime

\* the predicted naps placed by the wake-window rule (lines 271-279)
WindowIdx == {j \in PredictedIdx : events[j].reasoning[1].fmt = WINDOW_REASON}

\* the wake window of the first predicted nap: the interpolated value, times
\* 0.8 and rounded after a short last observed nap
FirstWindow ==
    LET w == calculateInterpolatedWakeWindow(ageMonths, Band)
    IN  IF NapCount > 0 /\ naps[NapCount].duration < 45
        THEN (8 * w + 5) \div 10
        ELSE w

\* C21: a predicted nap placed by the wake-window rule starts one wake window
\* after the end of the event before it, and names that window in its
\* reasoning; the window is the age-interpolated value (times 0.8 after a
\* short last observed nap) for the first predicted nap only and exactly
\* band.maxWake for every later one.
C21_WakeWindowWidening ==
    Returned =>
        \A j \in WindowIdx :
            LET window == IF j = NapCount + 2 THEN FirstWindow ELSE Band.maxWake
            IN  /\ events[j].startTime = addMinutes(EndBefore(j), window)
                /\ events[j].reasoning[1].tenths = (window * 10 + 30) \div 60

\* two observed naps, the second one short, and two predicted naps of a band
\* of four: the first after the reduced window, the second after maxWake
C21_Witness ==
    /\ Returned /\ NapCount = 2 /\ Band.naps = 4
    /\ naps[2].duration < 45
    /\ WindowIdx = {4, 5}
    /\ FirstWindow < calculateInterpolatedWakeWindow(ageMonths, Band)
    /\ FirstWindow < Band.maxWake
    /\ events[4].startTime = addMinutes(naps[2].endTime, FirstWindow)
    /\ events[5].startTime = addMinutes(events[4].endTime, Band.maxWake)

\* C22: a predicted nap placed by the wake-window rule lasts 30 minutes
\* exactly when the band targets more than one nap and the nap's number (the
\* observed naps plus the slots so far) is band.naps, and 90 minutes otherwise;
\* it ends at start + duration, and that end is the cursor from which the next
\* slot or the bedtime is placed.
C22_PredictedNapDuration ==
    /\ (pc = "predict" /\ i > 0) => currentTime = events[Len(events)].endTime
    /\ Returned =>
           \A j \in WindowIdx :
               LET napNumber == j - 1
                   duration  == IF Band.naps > 1 /\ napNumber = Band.naps
                                THEN 30 ELSE 90
               IN  /\ events[j].description.mins = duration
                   /\ events[j].endTime = addMinutes(events[j].startTime, duration)
                   /\ events[j + 1].startTime =
                          addMinutes(events[j].endTime,
                                     IF events[j + 1].type = "bedtime"
                                     THEN finalWakeWindow ELSE Band.maxWake)

\* 5 months, wake 07:00, empty log: three predicted naps of 90, 90 and 30
\* minutes, and the bedtime placed from the end of the third
C22_Witness ==
    /\ Returned /\ ageMonths = 5 /\ wakeTime = <<7, 0>> /\ naps = <<>>
    /\ WindowIdx = {2, 3, 4}
    /\ getDuration(events[2].startTime, events[2].endTime) = 90
    /\ getDuration(events[3].startTime, events[3].endTime) = 90
    /\ getDuration(events[4].startTime, events[4].endTime) = 30
    /\ currentTime = events[4].endTime
    /\ events[5].startTime = addMinutes(events[4].endTime, finalWakeWindow)

---------------------------------------------------------------------------
(* Properties of the nap log under read-modify-write *)

\* two operations, an addNap among them, have read the same log and both
\* have stored their list
TwoOnOneSnapshot ==
    /\ Len(calls) = 2
    /\ calls[1].fn \in {"addNap", "removeNap"}
    /\ calls[1].returned /\ calls[2].returned
    /\ calls[1].args[1] = calls[2].args[1]
    /\ calls[1].fn = "addNap" \/ calls[2].fn = "addNap"

\* the second operation has read the log that the first one stored
OneAfterTheOther ==
    /\ Len(calls) = 2
    /\ calls[1].fn \in {"addNap", "removeNap"}
    /\ calls[1].returned /\ calls[2].returned
    /\ calls[2].args[1] = calls[1].ret

\* C23 as stated: if two addNap operations, or an addNap and a removeNap, both
\* read the same log before either stores its result, the final log reflects
\* both edits: it is the log that the two operations give one after the other.
C23_AsStated ==
    TwoOnOneSnapshot =>
        LET s == calls[1].args[1]
        IN  \/ naps = Apply(calls[2], Apply(calls[1], s))
            \/ naps = Apply(calls[1], Apply(calls[2], s))

\* C23, amended: if two such operations both read the same log before either
\* stores its result, the final log is the list of the one that stored last,
\* computed from the log read, and the other edit is lost: of two added naps
\* one is missing; of an added and a removed nap, either the removed one is
\* still there or the added one is missing.  Both edits are reflected when
\* the second operation reads the log the first one stored.
C23_LostUpdate ==
    /\ TwoOnOneSnapshot =>
           LET s == calls[1].args[1]
           IN  /\ naps \in {Apply(calls[1], s), Apply(calls[2], s)}
               /\ (calls[1].fn = "addNap" /\ calls[2].fn = "addNap") =>
                      Len(naps) = Len(s) + 1
               /\ (calls[1].fn # calls[2].fn) =>
                      (Len(naps) = Len(s) + 1 \/ Len(naps) < Len(s))
    /\ OneAfterTheOther =>
           naps = Apply(calls[2], Apply(calls[1], calls[1].args[1]))

\* two addNap at different clock values on the same log: one entry more, not
\* two
C23_Witness ==
    /\ TwoOnOneSnapshot
    /\ calls[1].fn = "addNap" /\ calls[2].fn = "addNap"
    /\ calls[1].args[4] # calls[2].args[4]
    /\ Len(naps) = Len(calls[1].args[1]) + 1

\* the first time of day that a text of the capped case names
TimeStatedIn(text) ==
    IF text.fmt = TARGET_BEDTIME_RANGE THEN <<18, 15>>
    ELSE IF text.fmt = CAPPING_REASON THEN <<11, 0>>
    ELSE Blank

CappedCase == Returned /\ IsToddler(ageMonths) /\ naps = <<>> /\ CappingUsed

\* C24: for every age of 19..36, an empty nap log and every wake time for
\* which the capped strategy is chosen, the range of clock times that the
\* bedtime event's description names begins at that event's start time, and
\* the nap start that the capped nap's reasoning names is that nap's start
\* time.
C24_AsStated ==
    CappedCase =>
        /\ TimeStatedIn(events[3].description) = events[3].startTime
        /\ TimeStatedIn(events[2].reasoning[1]) = events[2].startTime

\* wake 05:30: the capped nap starts at 11:30 and the bedtime at 18:45 under
\* texts that name 11:00 and 18:15
C24_StaleTexts ==
    /\ CappedCase /\ wakeTime = <<5, 30>>
    /\ events[2].startTime = <<11, 30>>
    /\ events[2].reasoning[1].fmt = CAPPING_REASON
    /\ events[3].startTime = <<18, 45>>
    /\ events[3].description.fmt = TARGET_BEDTIME_RANGE

\* minutes from the wake time to the start of the event at position j, the
\* stretches between and inside the events before it added up without
\* wrapping at midnight
RECURSIVE ElapsedUntil(_)
ElapsedUntil(j) ==
    IF j = 1 THEN 0
    ELSE ElapsedUntil(j - 1)
         + (IF events[j - 1].type = "wake" THEN 0
            ELSE getDuration(events[j - 1].startTime, events[j - 1].endTime))
         + getDuration(EndBefore(j), events[j].startTime)

\* C25: for every age and wake time with an empty nap log, if the bedtime,
\* counted in minutes from the wake time and so also across midnight, lies
\* later than 21:00 of the wake day, the bedtime event is classified critical
\* (late) and never as early bedtime.
C25_AsStated ==
    (Returned /\ naps = <<>> /\ WakeMins + ElapsedUntil(BedtimeIdx) > LateBedtimeLimit) =>
        /\ events[BedtimeIdx].alertLevel = "critical"
        /\ events[BedtimeIdx].title.fmt # "Fruehe Bettzeit"

\* 40 months, wake 13:00: the bedtime, 720 minutes later at 01:00 of the next
\* day, is reported as an early bedtime
C25_EarlyAfterMidnight ==
    /\ Returned /\ ageMonths = 40 /\ wakeTime = <<13, 0>> /\ naps = <<>>
    /\ BedtimeIdx = 2
    /\ ElapsedUntil(2) = 720
    /\ events[2].startTime = <<1, 0>>
    /\ events[2].title.fmt = "Fruehe Bettzeit"
    /\ events[2].alertLevel = "warning"

\* minutes between the end of the event before position j and the start of
\* the event at j
WakeGap(j) == getDuration(EndBefore(j), events[j].startTime)

\* the first predicted nap follows a short last observed nap
AfterShortNap(j) ==
    j = NapCount + 2 /\ NapCount > 0 /\ naps[NapCount].duration < 45

\* C26 as stated: for every age of 0..36 and every nap log, the minutes between
\* the end of the preceding event and the start of each predicted nap lie
\* within band.minWake..band.maxWake.
C26_AsStated ==
    (Returned /\ ageMonths <= 36) =>
        \A j \in PredictedIdx :
            Band.minWake <= WakeGap(j) /\ WakeGap(j) <= Band.maxWake

\* C26, amended: for every age of 0..36 and every nap log the gap before a
\* predicted nap lies within band.minWake..band.maxWake, except before the
\* first predicted nap after a short (below 45 minutes) last observed nap:
\* that gap is round(0.8 x w) of the interpolated wake window w, which is
\* at most band.maxWake and at least round(0.8 x band.minWake) and so can be
\* below band.minWake.
C26_WakeGap ==
    (Returned /\ ageMonths <= 36) =>
        \A j \in PredictedIdx :
            IF AfterShortNap(j)
            THEN /\ WakeGap(j) = FirstWindow
                 /\ (8 * Band.minWake + 5) \div 10 <= WakeGap(j)
                 /\ WakeGap(j) <= Band.maxWake
            ELSE /\ Band.minWake <= WakeGap(j)
                 /\ WakeGap(j) <= Band.maxWake

\* 4 months, one observed nap of 30 minutes: the predicted nap follows after
\* 72 minutes, below the band's minWake of 90; the one after it after maxWake
C26_Witness ==
    /\ Returned /\ ageMonths = 4 /\ NapCount = 1
    /\ naps[1].duration = 30
    /\ Band.minWake = 90
    /\ PredictedIdx = {3, 4}
    /\ WakeGap(3) = 72
    /\ WakeGap(4) = Band.maxWake

\* C27: for every age of 19..36 with an empty nap log the capping warning is
\* in the warnings exactly when the early-wake warning is, that is, the capped
\* strategy is chosen exactly for the wake times before 06:00; for every other
\* age, and for a non-empty nap log, the capping warning does not appear.
C27_CappingWithEarlyWake ==
    Returned =>
        IF IsToddler(ageMonths) /\ naps = <<>>
        THEN /\ InWarnings(CAPPING_WARNING) <=> InWarnings(EARLY_WAKE_WARNING)
             /\ InWarnings(CAPPING_WARNING) <=> WakeMins < 360
             /\ CappingUsed <=> WakeMins < 360
        ELSE ~InWarnings(CAPPING_WARNING) /\ ~CappingUsed

\* 20 months, wake 05:55, empty log: both warnings
C27_Witness ==
    /\ Returned /\ ageMonths = 20 /\ wakeTime = <<5, 55>> /\ naps = <<>>
    /\ warnings = <<EARLY_WAKE_WARNING, CAPPING_WARNING>>
    /\ events[2].title.fmt = CAPPING_TITLE

\* a minute count that minutesToTime turns into a time of day of the same or
\* the next day
InTwoDays(total) == 0 <= total /\ total < 2 * MinutesPerDay

\* C28: for every age, every valid wake time and every nap log of valid
\* times, every startTime and endTime of the returned list is, written out, a
\* zero-padded "HH:MM" text with an hour of 00..23 and a minute of 00..59; and
\* no minute count handed to minutesToTime while the naps and the bedtime are
\* placed is negative or reaches 2880.
C28_ValidOutputTimes ==
    /\ (Returned /\ wakeTime # Blank) =>
           \A j \in 1..Len(events) :
               /\ FormatTime(events[j].startTime) \in ClockTexts
               /\ events[j].type = "nap" =>
                      FormatTime(events[j].endTime) \in ClockTexts
    /\ (pc = "predict" /\ wakeTime # Blank) =>
           /\ InTwoDays(timeToMinutes(currentTime) + nextWakeWindow)
           /\ InTwoDays(timeToMinutes(currentTime) + std.minWake)
           /\ InTwoDays(timeToMinutes(currentTime) + std.maxWake + StandardNapDuration)
           /\ InTwoDays(timeToMinutes(currentTime) + nextWakeWindow + StandardNapDuration)
           /\ InTwoDays(timeToMinutes(currentTime) + BaseBedtimeWindow(ageMonths, std))

\* 2 months, wake 23:00: the first predicted nap, 75 minutes later, starts at
\* "00:15"
C28_Witness ==
    /\ Returned /\ ageMonths = 2 /\ wakeTime = <<23, 0>> /\ naps = <<>>
    /\ events[2].startTime = <<0, 15>>
    /\ FormatTime(events[2].startTime) = <<"0", "0", ":", "1", "5">>
    /\ FormatTime(events[2].endTime) = <<"0", "1", ":", "4", "5">>

\* minutes from the end of the event before position j to the start of the
\* event at j as the two times of day stand, nothing added across midnight
ClockGap(j) == timeToMinutes(events[j].startTime) - timeToMinutes(EndBefore(j))

\* C29 as stated: for every age and wake time with an empty nap log, every
\* predicted nap starts a positive number of minutes, counted without
\* wrapping, after the end of the event before it (the wake time for the
\* first predicted nap); no predicted nap lies before the wake time.
C29_AsStated ==
    (Returned /\ naps = <<>>) => \A j \in PredictedIdx : ClockGap(j) > 0

\* second implementation, 24 months, wake 13:00: the nap of the clock mode is
\* put at 12:30 (line 1044), half an hour before the child woke
C29_NapBeforeWake ==
    /\ Returned /\ ageMonths = 24 /\ wakeTime = <<13, 0>> /\ naps = <<>>
    /\ PredictedIdx = {2}
    /\ events[2].startTime = <<12, 30>>
    /\ events[2].endTime = <<14, 0>>
    /\ ClockGap(2) = -30

\* the first implementation (lines 158-366) on a day that stays before
\* midnight: with an empty nap log every predicted nap starts after the event
\* before it
C29_SameDay ==
    (Returned /\ naps = <<>>) =>
        \A j \in PredictedIdx :
            WakeMins + ElapsedUntil(j) < MinutesPerDay => ClockGap(j) > 0

---------------------------------------------------------------------------
(* Frame of the input handlers *)

\* one of the two staged fields is edited: addNap clears both at once
\* (lines 375-376), an input's onChange sets one (lines 487, 491)
StagedFieldEdited == (napStart' # napStart) # (napEnd' # napEnd)

\* C30: every step that changes the age sets the nap log to empty in the same
\* step; a step that changes the wake time, switches the tab or edits one of
\* the staged start and end fields leaves the nap log as it is.
C30_NapLogResetOnAgeChange ==
    [][/\ ageMonths' # ageMonths => naps' = <<>>
       /\ (wakeTime' # wakeTime \/ activeTab' # activeTab \/ StagedFieldEdited)
              => naps' = naps]_vars

\* the slider has been moved away from the initial 24 months and the callback
\* has not run yet: the log is empty; the wake time and a staged field were
\* changed before
C30_Witness ==
    /\ ageMonths = 2 /\ pc = "start" /\ naps = <<>>
    /\ wakeTime = <<7, 0>> /\ napStart = <<9, 0>> /\ napEnd = Blank
    /\ now > 0

====
